---- MODULE Spec2Model ----
(***************************************************************************)
(* Electrostatic particle-in-cell core: BoxMesh, Field and Species.        *)
(*                                                                         *)
(* Real numbers (f64 in the source) are exact rationals <<num, den>> in    *)
(* lowest terms with den > 0, so that equalities the documentation states  *)
(* "within floating tolerance" are decided exactly.  A Vec3 is a triple of *)
(* rationals, a Field is a function from the node triples of its shape,    *)
(* with 0-based node indices as in the source.                             *)
(***************************************************************************)
EXTENDS Integers, Sequences, FiniteSets, TLC

VARIABLES mesh, species, field, solver, call

vars == <<mesh, species, field, solver, call>>

(***************************************************************************)
(* Bounds of the model.                                                    *)
(***************************************************************************)
\* largest node count per axis of a mesh drawn in MeshSpec
MaxDim == 4
\* largest box edge length drawn in MeshSpec
MaxLen == 3
\* logical coordinates handed to scatter are the multiples of 1/LcDen
LcDen == 2
\* most particles a species is given in SpeciesSpec
MaxParticles == 2
\* most advance calls of a behaviour of SpeciesSpec in a zero electric field
MaxAdvances == 2
\* most species in the list handed to compute_charge_density
MaxSpecies == 3
\* most lattice planes per axis of a quiet start
MaxGrid == 3
\* the iterations the driver runs, standing for SIMULATION_ITERATIONS
MaxSimulationIterations == 3
\* largest max_solver_iterations handed to solve_potential
MaxSweeps == 52
\* sweeps followed one at a time when the order of the updates is checked
MaxOrderedSweeps == 3
\* operations applied in a row to one mesh and its species
MaxOperations == 5
\* a stored potential is a multiple of 1/Precision
Precision == 8

(***************************************************************************)
(* Exact rational arithmetic standing for f64.                             *)
(***************************************************************************)
Abs(x) == IF x < 0 THEN -x ELSE x

RECURSIVE GCD(_, _)
GCD(a, b) == IF b = 0 THEN a ELSE GCD(b, a % b)

Rat(n, d) ==
    LET s == IF d < 0 THEN -1 ELSE 1
        g == GCD(Abs(n), Abs(d))
    IN  <<(s * n) \div g, (s * d) \div g>>

R(n) == <<n, 1>>
RZero == <<0, 1>>
ROne == <<1, 1>>
RHalf == <<1, 2>>

\* the operations cancel common factors before they multiply
RAdd(a, b) ==
    LET g == GCD(a[2], b[2])
    IN  Rat(a[1] * (b[2] \div g) + b[1] * (a[2] \div g), (a[2] \div g) * b[2])
RMul(a, b) ==
    LET g == GCD(Abs(a[1]), b[2])
        h == GCD(Abs(b[1]), a[2])
    IN  Rat((a[1] \div g) * (b[1] \div h), (a[2] \div h) * (b[2] \div g))
RSub(a, b) == RAdd(a, <<-b[1], b[2]>>)
RDiv(a, b) == RMul(a, IF b[1] < 0 THEN <<-b[2], -b[1]>> ELSE <<b[2], b[1]>>)
RNeg(a) == <<-a[1], a[2]>>
RLt(a, b) == a[1] * b[2] < b[1] * a[2]
RGe(a, b) == ~RLt(a, b)

\* `x as usize` for an f64: truncation toward zero, saturating at 0
AsUsize(a) == IF a[1] < 0 THEN 0 ELSE a[1] \div a[2]

(***************************************************************************)
(* Vec3 and Dimensions.                                                    *)
(***************************************************************************)
Vec3(x, y, z) == <<x, y, z>>
VZero == <<RZero, RZero, RZero>>
VAdd(a, b) == [c \in 1..3 |-> RAdd(a[c], b[c])]
VSub(a, b) == [c \in 1..3 |-> RSub(a[c], b[c])]
VScale(a, s) == [c \in 1..3 |-> RMul(a[c], s)]

Dimensions(x, y, z) == <<x, y, z>>

\* the node triples of a shape, [0,nx) x [0,ny) x [0,nz)
Nodes(d) == (0..(d[1] - 1)) \X (0..(d[2] - 1)) \X (0..(d[3] - 1))

(***************************************************************************)
(* Field<T>                                                                *)
(***************************************************************************)
\* Field::new: a zero-initialised array of the given shape
FieldNew(d) == [data |-> [n \in Nodes(d) |-> RZero], shape |-> d]

VecFieldNew(d) == [data |-> [n \in Nodes(d) |-> VZero], shape |-> d]

Clear(f) == [f EXCEPT !.data = [n \in Nodes(f.shape) |-> RZero]]

\* mutant of OutOfRange: the test of lc.z against 0 is missing
OutOfRangeNoLowerZ(shape, lc) ==
    \/ RLt(lc[1], RZero) \/ RGe(lc[1], R(shape[1] - 1))
    \/ RLt(lc[2], RZero) \/ RGe(lc[2], R(shape[2] - 1))
    \/ RGe(lc[3], R(shape[3] - 1))

\* the early return of scatter: lc outside [0, shape-1) on some axis
OutOfRange(shape, lc) ==
    \/ RLt(lc[1], RZero) \/ RGe(lc[1], R(shape[1] - 1))
    \/ RLt(lc[2], RZero) \/ RGe(lc[2], R(shape[2] - 1))
    \/ RLt(lc[3], RZero) \/ RGe(lc[3], R(shape[3] - 1))

\* mutant of ScatterWeights: the weight of node (i, j+1, k) repeats that of
\* node (i+1, j+1, k)
ScatterWeightsRepeated(lc) ==
    LET i == AsUsize(lc[1])
        j == AsUsize(lc[2])
        k == AsUsize(lc[3])
        di == RSub(lc[1], R(i))
        dj == RSub(lc[2], R(j))
        dk == RSub(lc[3], R(k))
        mi == RSub(ROne, di)
        mj == RSub(ROne, dj)
        mk == RSub(ROne, dk)
    IN  << <<<<i, j, k>>,             RMul(RMul(mi, mj), mk)>>,
           <<<<i + 1, j, k>>,         RMul(RMul(di, mj), mk)>>,
           <<<<i + 1, j + 1, k>>,     RMul(RMul(di, dj), mk)>>,
           <<<<i, j + 1, k>>,         RMul(RMul(di, dj), mk)>>,
           <<<<i, j, k + 1>>,         RMul(RMul(mi, mj), dk)>>,
           <<<<i + 1, j, k + 1>>,     RMul(RMul(di, mj), dk)>>,
           <<<<i + 1, j + 1, k + 1>>, RMul(RMul(di, dj), dk)>>,
           <<<<i, j + 1, k + 1>>,     RMul(RMul(mi, dj), dk)>> >>

\* the corner nodes of the cell of lc, each with its trilinear weight, in the
\* order scatter writes them
ScatterWeights(lc) ==
    LET i == AsUsize(lc[1])
        j == AsUsize(lc[2])
        k == AsUsize(lc[3])
        di == RSub(lc[1], R(i))
        dj == RSub(lc[2], R(j))
        dk == RSub(lc[3], R(k))
        mi == RSub(ROne, di)
        mj == RSub(ROne, dj)
        mk == RSub(ROne, dk)
    IN  << <<<<i, j, k>>,             RMul(RMul(mi, mj), mk)>>,
           <<<<i + 1, j, k>>,         RMul(RMul(di, mj), mk)>>,
           <<<<i + 1, j + 1, k>>,     RMul(RMul(di, dj), mk)>>,
           <<<<i, j + 1, k>>,         RMul(RMul(mi, dj), mk)>>,
           <<<<i, j, k + 1>>,         RMul(RMul(mi, mj), dk)>>,
           <<<<i + 1, j, k + 1>>,     RMul(RMul(di, mj), dk)>>,
           <<<<i + 1, j + 1, k + 1>>, RMul(RMul(di, dj), dk)>>,
           <<<<i, j + 1, k + 1>>,     RMul(RMul(mi, dj), dk)>> >>

\* scatter with the eight weights handed to the corners in reverse order
ScatterIntoMirrored(data, lc, value) ==
    LET w == ScatterWeights(lc)
        acc[s \in 0..8] ==
            IF s = 0 THEN data
            ELSE [acc[s - 1] EXCEPT ![w[s][1]] = RAdd(@, RMul(value, w[9 - s][2]))]
    IN  acc[8]

\* the eight `data[[..]] += value * weight` statements of scatter, in order
ScatterInto(data, lc, value) ==
    LET w == ScatterWeights(lc)
        acc[s \in 0..8] ==
            IF s = 0 THEN data
            ELSE [acc[s - 1] EXCEPT ![w[s][1]] = RAdd(@, RMul(value, w[s][2]))]
    IN  acc[8]

Scatter(f, lc, value) ==
    IF OutOfRange(f.shape, lc) THEN f
    ELSE [f EXCEPT !.data = ScatterInto(f.data, lc, value)]

\* g(0) + ... + g(n - 1)
SumTo(g(_), n) ==
    LET sum[k \in 0..n] == IF k = 0 THEN RZero ELSE RAdd(sum[k - 1], g(k - 1))
    IN  sum[n]

\* the sum of a scalar field over all its nodes
FieldSum(f) ==
    SumTo(LAMBDA i : SumTo(LAMBDA j : SumTo(LAMBDA k : f.data[<<i, j, k>>],
                                            f.shape[3]), f.shape[2]), f.shape[1])

(***************************************************************************)
(* BoxMesh                                                                 *)
(***************************************************************************)
CellSpacings(origin, max_bound, dimensions) ==
    [c \in 1..3 |-> RDiv(RSub(max_bound[c], origin[c]), R(dimensions[c]))]

NodeVolume(cell_spacings, dimensions, n) ==
    LET full == RMul(RMul(cell_spacings[1], cell_spacings[2]), cell_spacings[3])
        hx == IF n[1] = 0 \/ n[1] = dimensions[1] - 1 THEN RMul(full, RHalf) ELSE full
        hy == IF n[2] = 0 \/ n[2] = dimensions[2] - 1 THEN RMul(hx, RHalf) ELSE hx
        hz == IF n[3] = 0 \/ n[3] = dimensions[3] - 1 THEN RMul(hy, RHalf) ELSE hy
    IN  hz

ComputeNodeVolumes(cell_spacings, dimensions) ==
    [ data  |-> [n \in Nodes(dimensions) |-> NodeVolume(cell_spacings, dimensions, n)],
      shape |-> dimensions ]

BoxMeshNew(origin, max_bound, dimensions, timestep) ==
    LET cs == CellSpacings(origin, max_bound, dimensions)
    IN  [ origin         |-> origin,
          max_bound      |-> max_bound,
          dimensions     |-> dimensions,
          cell_spacings  |-> cs,
          centroid       |-> VScale(VAdd(origin, max_bound), RHalf),
          node_volumes   |-> ComputeNodeVolumes(cs, dimensions),
          timestep       |-> timestep,
          potential      |-> FieldNew(dimensions),
          charge_density |-> FieldNew(dimensions),
          electric_field |-> VecFieldNew(dimensions) ]

\* the node_volumes() accessor: a clone of the field
NodeVolumes(m) == m.node_volumes

PositionToLogicalCoordinate(m, position) ==
    LET rel == VSub(position, m.origin)
    IN  [c \in 1..3 |-> RDiv(rel[c], m.cell_spacings[c])]

\* compute_charge_density accumulating onto the previous charge density
ComputeChargeDensityNoClear(m, species_list) ==
    LET acc[s \in 0..Len(species_list)] ==
            IF s = 0 THEN m.charge_density
            ELSE IF species_list[s].charge = RZero THEN acc[s - 1]
            ELSE [acc[s - 1] EXCEPT !.data =
                    [n \in Nodes(acc[s - 1].shape) |->
                        RAdd(acc[s - 1].data[n],
                             RMul(species_list[s].number_density.data[n],
                                  species_list[s].charge))]]
    IN  [m EXCEPT !.charge_density = acc[Len(species_list)]]

\* compute_charge_density that also clears the node volumes
ComputeChargeDensityClearingVolumes(m, species_list) ==
    LET acc[s \in 0..Len(species_list)] ==
            IF s = 0 THEN Clear(m.charge_density)
            ELSE IF species_list[s].charge = RZero THEN acc[s - 1]
            ELSE [acc[s - 1] EXCEPT !.data =
                    [n \in Nodes(acc[s - 1].shape) |->
                        RAdd(acc[s - 1].data[n],
                             RMul(species_list[s].number_density.data[n],
                                  species_list[s].charge))]]
    IN  [m EXCEPT !.charge_density = acc[Len(species_list)],
                  !.node_volumes = Clear(m.node_volumes)]

\* compute_charge_density over a list of species
ComputeChargeDensity(m, species_list) ==
    LET acc[s \in 0..Len(species_list)] ==
            IF s = 0 THEN Clear(m.charge_density)
            ELSE IF species_list[s].charge = RZero THEN acc[s - 1]
            ELSE [acc[s - 1] EXCEPT !.data =
                    [n \in Nodes(acc[s - 1].shape) |->
                        RAdd(acc[s - 1].data[n],
                             RMul(species_list[s].number_density.data[n],
                                  species_list[s].charge))]]
    IN  [m EXCEPT !.charge_density = acc[Len(species_list)]]

(***************************************************************************)
(* solve_potential.  The exact iterates of the relaxation outgrow the      *)
(* 32-bit integers of TLC within a few sweeps, so the finite precision of   *)
(* f64 is modelled: a value stored into the potential is rounded to the    *)
(* nearest multiple of 1/Precision.  Charge is measured in the units in    *)
(* which the permittivity is 1.                                            *)
(***************************************************************************)
PERMITTIVITY == 1

\* rounding to the nearest multiple of 1/Precision, halves upward
Store(x) == Rat((2 * x[1] * Precision + x[2]) \div (2 * x[2]), Precision)

\* 1 / cell_spacing^2 per axis
InverseSquares(m) ==
    [c \in 1..3 |-> RDiv(ROne, RMul(m.cell_spacings[c], m.cell_spacings[c]))]

GaussSeidelDenominator(m) ==
    LET d2 == InverseSquares(m)
    IN  RAdd(RAdd(RMul(R(2), d2[1]), RMul(R(2), d2[2])), RMul(R(2), d2[3]))

\* the stencil with a uniform unit background charge added to the source
StencilWithBackground(m, phi, rho, n) ==
    LET d2 == InverseSquares(m)
        pair(c) == RAdd(phi[[n EXCEPT ![c] = n[c] - 1]], phi[[n EXCEPT ![c] = n[c] + 1]])
    IN  RAdd(RAdd(RAdd(RDiv(RAdd(rho[n], ROne), R(PERMITTIVITY)), RMul(d2[1], pair(1))),
                  RMul(d2[2], pair(2))),
             RMul(d2[3], pair(3)))

\* rho/PERMITTIVITY + dx2 * (phi[i-1] + phi[i+1]) + dy2 * (..) + dz2 * (..)
Stencil(m, phi, rho, n) ==
    LET d2 == InverseSquares(m)
        pair(c) == RAdd(phi[[n EXCEPT ![c] = n[c] - 1]], phi[[n EXCEPT ![c] = n[c] + 1]])
    IN  RAdd(RAdd(RAdd(RDiv(rho[n], R(PERMITTIVITY)), RMul(d2[1], pair(1))),
                  RMul(d2[2], pair(2))),
             RMul(d2[3], pair(3)))

\* the nodes 1..dim-2 on every axis, in the order of the nested i, j, k loops
InteriorSeq(d) ==
    [q \in 1..((d[1] - 2) * (d[2] - 2) * (d[3] - 2)) |->
        << 1 + (q - 1) \div ((d[2] - 2) * (d[3] - 2)),
           1 + (((q - 1) \div (d[3] - 2)) % (d[2] - 2)),
           1 + ((q - 1) % (d[3] - 2)) >>]

\* the value the sweep stores at node n: Gauss-Seidel, then over-relaxation
Relaxed(m, phi, rho, n) ==
    LET new_phi == RDiv(Stencil(m, phi, rho, n), GaussSeidelDenominator(m))
        current_phi == phi[n]
    IN  Store(RAdd(current_phi, RMul(Rat(14, 10), RSub(new_phi, current_phi))))

\* a sweep that then copies the first interior plane onto the wall i = 0
SweepZeroGradientWall(m) ==
    LET nodes == InteriorSeq(m.dimensions)
        phi[q \in 0..Len(nodes)] ==
            IF q = 0 THEN m.potential.data
            ELSE LET previous == phi[q - 1]
                 IN  [previous EXCEPT
                        ![nodes[q]] = Relaxed(m, previous, m.charge_density.data, nodes[q])]
    IN  [m EXCEPT !.potential.data =
            [n \in Nodes(m.dimensions) |->
                IF n[1] = 0 THEN phi[Len(nodes)][<<1, n[2], n[3]>>]
                ELSE phi[Len(nodes)][n]]]

\* a sweep in which every update reads the values of the previous sweep
SweepFromPreviousValues(m) ==
    LET nodes == InteriorSeq(m.dimensions)
        phi[q \in 0..Len(nodes)] ==
            IF q = 0 THEN m.potential.data
            ELSE [phi[q - 1] EXCEPT
                    ![nodes[q]] = Relaxed(m, m.potential.data, m.charge_density.data, nodes[q])]
    IN  [m EXCEPT !.potential.data = phi[Len(nodes)]]

\* one sweep over the interior nodes, in place
Sweep(m) ==
    LET nodes == InteriorSeq(m.dimensions)
        phi[q \in 0..Len(nodes)] ==
            IF q = 0 THEN m.potential.data
            ELSE LET previous == phi[q - 1]
                 IN  [previous EXCEPT
                        ![nodes[q]] = Relaxed(m, previous, m.charge_density.data, nodes[q])]
    IN  [m EXCEPT !.potential.data = phi[Len(nodes)]]

\* the sum of the squared residuals over the interior nodes
ResidualSum(m) ==
    LET nodes == InteriorSeq(m.dimensions)
        r(n) == RAdd(RMul(RNeg(m.potential.data[n]), GaussSeidelDenominator(m)),
                     Stencil(m, m.potential.data, m.charge_density.data, n))
    IN  SumTo(LAMBDA q : RMul(r(nodes[q + 1]), r(nodes[q + 1])), Len(nodes))

\* the number of interior nodes in place of `volume`
SolverVolumeInterior(m) ==
    (m.dimensions[1] - 2) * (m.dimensions[2] - 2) * (m.dimensions[3] - 2)

\* `volume` of solve_potential
SolverVolume(m) == m.dimensions[1] * m.dimensions[2] * m.dimensions[3]

\* (sum / volume).sqrt() < tolerance
NormBelow(sum, volume, tolerance) ==
    /\ RLt(RZero, tolerance)
    /\ RLt(RDiv(sum, R(volume)), RMul(tolerance, tolerance))

\* a check on every 25th iteration, the first one included
ChecksConvergenceFromZero(iteration) == iteration % 25 = 0

\* "Checking for convergence": the iterations whose residual is evaluated
ChecksConvergence(iteration) == iteration # 0 /\ iteration % 25 = 0

\* -d(phi)/dc with the centred quotient clamped at the two boundary planes
NegGradientClamped(phi, dimensions, cell_spacings, n, c) ==
    LET at(o) == phi.data[[n EXCEPT ![c] = n[c] + o]]
        two_h == RMul(R(2), cell_spacings[c])
    IN  IF n[c] = 0 THEN
            RDiv(RNeg(RSub(at(1), at(0))), two_h)
        ELSE IF n[c] = dimensions[c] - 1 THEN
            RDiv(RNeg(RSub(at(0), at(-1))), two_h)
        ELSE
            RDiv(RNeg(RSub(at(1), at(-1))), two_h)

\* -d(phi)/dc at node n along axis c: centred in the interior, three-point
\* one-sided on the two boundary planes
NegGradient(phi, dimensions, cell_spacings, n, c) ==
    LET at(o) == phi.data[[n EXCEPT ![c] = n[c] + o]]
        two_h == RMul(R(2), cell_spacings[c])
    IN  IF n[c] = 0 THEN
            RDiv(RNeg(RSub(RAdd(RMul(R(-3), at(0)), RMul(R(4), at(1))), at(2))), two_h)
        ELSE IF n[c] = dimensions[c] - 1 THEN
            RDiv(RNeg(RAdd(RSub(at(-2), RMul(R(4), at(-1))), RMul(R(3), at(0)))), two_h)
        ELSE
            RDiv(RNeg(RSub(at(1), at(-1))), two_h)

ComputeElectricField(m) ==
    [m EXCEPT !.electric_field.data =
        [n \in Nodes(m.dimensions) |->
            [c \in 1..3 |-> NegGradient(m.potential, m.dimensions, m.cell_spacings, n, c)]]]

(***************************************************************************)
(* Field::gather.  Its body is not among the sources; it is the trilinear  *)
(* interpolation the documentation describes, defined on [0, dim-1] on     *)
(* every axis.  Outside that range its behaviour is undefined: a call      *)
(* either aborts or extrapolates from the nearest cell.                    *)
(***************************************************************************)
GatherDefined(shape, lc) ==
    \A c \in 1..3 : RGe(lc[c], RZero) /\ ~RLt(R(shape[c] - 1), lc[c])

Min(a, b) == IF a < b THEN a ELSE b

Gather(f, lc) ==
    LET base == [c \in 1..3 |-> Min(AsUsize(lc[c]), f.shape[c] - 2)]
        d == [c \in 1..3 |-> RSub(lc[c], R(base[c]))]
        w(c, o) == IF o = 1 THEN d[c] ELSE RSub(ROne, d[c])
        term(a, b, o) ==
            VScale(VScale(VScale(f.data[<<base[1] + a, base[2] + b, base[3] + o>>],
                                 w(1, a)), w(2, b)), w(3, o))
    IN  VAdd(VAdd(VAdd(term(0, 0, 0), term(1, 0, 0)), VAdd(term(1, 1, 0), term(0, 1, 0))),
             VAdd(VAdd(term(0, 0, 1), term(1, 0, 1)), VAdd(term(1, 1, 1), term(0, 1, 1))))

(***************************************************************************)
(* Particle and Species                                                    *)
(***************************************************************************)
ParticleNew(position, velocity, macroparticle_weight) ==
    [ position |-> position, velocity |-> velocity,
      macroparticle_weight |-> macroparticle_weight ]

SpeciesNew(name, mass, charge, mesh_dimensions) ==
    [ name |-> name, mass |-> mass, charge |-> charge,
      number_density |-> FieldNew(mesh_dimensions),
      particles |-> <<>> ]

\* add_particle with the velocity moved half a timestep forward
AddParticleForward(s, m, position, velocity, macroparticle_weight) ==
    LET lc == PositionToLogicalCoordinate(m, position)
        electric_field == Gather(m.electric_field, lc)
        updated_velocity ==
            VAdd(velocity,
                 VScale(VScale(electric_field, RDiv(s.charge, s.mass)),
                        RMul(RHalf, m.timestep)))
    IN  [s EXCEPT !.particles =
            Append(@, ParticleNew(position, updated_velocity, macroparticle_weight))]

\* add_particle: the velocity is rewound by half a timestep
AddParticle(s, m, position, velocity, macroparticle_weight) ==
    LET lc == PositionToLogicalCoordinate(m, position)
        electric_field == Gather(m.electric_field, lc)
        updated_velocity ==
            VSub(velocity,
                 VScale(VScale(electric_field, RDiv(s.charge, s.mass)),
                        RMul(RHalf, m.timestep)))
    IN  [s EXCEPT !.particles =
            Append(@, ParticleNew(position, updated_velocity, macroparticle_weight))]

\* _load_particles_box: particle p is placed with the p-th value the random
\* generator yields, one value per particle
LoadParticlesBox(s, m, origin, opposite, number_density, num_macroparticles, rng) ==
    LET diagonal_vector == VSub(opposite, origin)
        box_volume == RMul(RMul(diagonal_vector[1], diagonal_vector[2]), diagonal_vector[3])
        num_real_particles == RMul(number_density, box_volume)
        macroparticle_weight == RDiv(num_real_particles, R(num_macroparticles))
        added(p) ==
            AddParticle([s EXCEPT !.particles = <<>>], m,
                        VAdd(origin, VScale(diagonal_vector, rng[p])), VZero,
                        macroparticle_weight).particles[1]
    IN  [s EXCEPT !.particles = @ \o [p \in 1..num_macroparticles |-> added(p)]]

\* the quiet start with the full weight on every lattice plane but the first
LoadParticlesBoxQsFirstPlaneOnly(s, m, origin, opposite, number_density, num_macroparticles) ==
    LET n == num_macroparticles
        diagonal_vector == VSub(opposite, origin)
        box_volume == RMul(RMul(diagonal_vector[1], diagonal_vector[2]), diagonal_vector[3])
        total_macroparticles == (n[1] - 1) * (n[2] - 1) * (n[3] - 1)
        macroparticle_weight ==
            RDiv(RMul(number_density, box_volume), R(total_macroparticles))
        step == [c \in 1..3 |-> RDiv(diagonal_vector[c], R(n[c] - 1))]
        index(q) == << (q - 1) \div (n[2] * n[3]),
                       ((q - 1) \div n[3]) % n[2],
                       (q - 1) % n[3] >>
        position(ijk) ==
            [c \in 1..3 |->
                LET x == RAdd(origin[c], RMul(R(ijk[c]), step[c]))
                IN  IF x = opposite[c] THEN RSub(x, RMul(Rat(1, 10000), step[c])) ELSE x]
        weight_factor(ijk) ==
            RMul(RMul(IF ijk[1] = 0 THEN RHalf ELSE ROne,
                      IF ijk[2] = 0 THEN RHalf ELSE ROne),
                 IF ijk[3] = 0 THEN RHalf ELSE ROne)
        added(q) ==
            AddParticle([s EXCEPT !.particles = <<>>], m, position(index(q)), VZero,
                        RMul(macroparticle_weight, weight_factor(index(q)))).particles[1]
    IN  [s EXCEPT !.particles = @ \o [q \in 1..(n[1] * n[2] * n[3]) |-> added(q)]]

\* load_particles_box_qs: a lattice of n[1] x n[2] x n[3] particles over the
\* box, k fastest; each particle is added by add_particle, which reads the
\* mesh and the species' charge and mass only
LoadParticlesBoxQs(s, m, origin, opposite, number_density, num_macroparticles) ==
    LET n == num_macroparticles
        diagonal_vector == VSub(opposite, origin)
        box_volume == RMul(RMul(diagonal_vector[1], diagonal_vector[2]), diagonal_vector[3])
        total_macroparticles == (n[1] - 1) * (n[2] - 1) * (n[3] - 1)
        macroparticle_weight ==
            RDiv(RMul(number_density, box_volume), R(total_macroparticles))
        step == [c \in 1..3 |-> RDiv(diagonal_vector[c], R(n[c] - 1))]
        index(q) == << (q - 1) \div (n[2] * n[3]),
                       ((q - 1) \div n[3]) % n[2],
                       (q - 1) % n[3] >>
        position(ijk) ==
            [c \in 1..3 |->
                LET x == RAdd(origin[c], RMul(R(ijk[c]), step[c]))
                IN  IF x = opposite[c] THEN RSub(x, RMul(Rat(1, 10000), step[c])) ELSE x]
        weight_factor(ijk) ==
            RMul(RMul(IF ijk[1] = 0 \/ ijk[1] = n[1] - 1 THEN RHalf ELSE ROne,
                      IF ijk[2] = 0 \/ ijk[2] = n[2] - 1 THEN RHalf ELSE ROne),
                 IF ijk[3] = 0 \/ ijk[3] = n[3] - 1 THEN RHalf ELSE ROne)
        added(q) ==
            AddParticle([s EXCEPT !.particles = <<>>], m, position(index(q)), VZero,
                        RMul(macroparticle_weight, weight_factor(index(q)))).particles[1]
    IN  [s EXCEPT !.particles = @ \o [q \in 1..(n[1] * n[2] * n[3]) |-> added(q)]]

\* a move in which the position advances with the velocity before the update
MovedWithOldVelocity(s, m, particle) ==
    LET lc == PositionToLogicalCoordinate(m, particle.position)
        electric_field == Gather(m.electric_field, lc)
        velocity == VAdd(particle.velocity,
                         VScale(electric_field,
                                RMul(m.timestep, RDiv(s.charge, s.mass))))
    IN  [particle EXCEPT !.velocity = velocity,
                         !.position = VAdd(particle.position,
                                           VScale(particle.velocity, m.timestep))]

\* the velocity and position of a particle after the two += of advance,
\* before the reflection
Moved(s, m, particle) ==
    LET lc == PositionToLogicalCoordinate(m, particle.position)
        electric_field == Gather(m.electric_field, lc)
        velocity == VAdd(particle.velocity,
                         VScale(electric_field,
                                RMul(m.timestep, RDiv(s.charge, s.mass))))
    IN  [particle EXCEPT !.velocity = velocity,
                         !.position = VAdd(particle.position, VScale(velocity, m.timestep))]

\* the coordinate the reflection tests of advance read
ReflectionCoordinate(m, particle, moved) ==
    PositionToLogicalCoordinate(m, particle.position)

\* a reflection that mirrors the position and stops the velocity component
ReflectedInelastic(m, lc, moved) ==
    LET low(c) == RLt(lc[c], RZero)
        high(c) == RGe(lc[c], R(m.dimensions[c] - 1))
    IN  [moved EXCEPT
           !.position = [c \in 1..3 |->
               IF low(c) THEN RSub(RMul(R(2), m.origin[c]), moved.position[c])
               ELSE IF high(c) THEN RSub(RMul(R(2), m.max_bound[c]), moved.position[c])
               ELSE moved.position[c]],
           !.velocity = [c \in 1..3 |->
               IF low(c) \/ high(c) THEN RZero
               ELSE moved.velocity[c]]]

\* "Reflecting particles leaving the mesh": the three if / else if blocks
Reflected(m, lc, moved) ==
    LET low(c) == RLt(lc[c], RZero)
        high(c) == RGe(lc[c], R(m.dimensions[c] - 1))
    IN  [moved EXCEPT
           !.position = [c \in 1..3 |->
               IF low(c) THEN RSub(RMul(R(2), m.origin[c]), moved.position[c])
               ELSE IF high(c) THEN RSub(RMul(R(2), m.max_bound[c]), moved.position[c])
               ELSE moved.position[c]],
           !.velocity = [c \in 1..3 |->
               IF low(c) \/ high(c) THEN RMul(moved.velocity[c], R(-1))
               ELSE moved.velocity[c]]]

AdvanceParticle(s, m, particle) ==
    LET moved == Moved(s, m, particle)
    IN  Reflected(m, ReflectionCoordinate(m, particle, moved), moved)

Advance(s, m) ==
    [s EXCEPT !.particles = [p \in 1..Len(s.particles) |-> AdvanceParticle(s, m, s.particles[p])]]

\* an index check that accepts the right operand only when the shapes agree
DivIndexedInBoundsSameShape(f, other) == f.shape = other.shape

\* every other[[i, j, k]] the loops of Div read is an index of other
DivIndexedInBounds(f, other) == Nodes(f.shape) \subseteq Nodes(other.shape)

\* Div for Field: elementwise over the shape of the left operand
FieldDiv(f, other) ==
    [ data  |-> [n \in Nodes(f.shape) |-> RDiv(f.data[n], other.data[n])],
      shape |-> f.shape ]

\* the scatter loop of compute_number_density over particles[1..Len]
ScatterParticles(f, m, particles) ==
    LET acc[p \in 0..Len(particles)] ==
            IF p = 0 THEN f
            ELSE Scatter(acc[p - 1],
                         PositionToLogicalCoordinate(m, particles[p].position),
                         particles[p].macroparticle_weight)
    IN  acc[Len(particles)]

\* mutant of ComputeNumberDensity: the density field is not cleared first
ComputeNumberDensityNoClear(s, m) ==
    [s EXCEPT !.number_density =
        FieldDiv(ScatterParticles(s.number_density, m, s.particles), m.node_volumes)]

ComputeNumberDensity(s, m) ==
    [s EXCEPT !.number_density =
        FieldDiv(ScatterParticles(Clear(s.number_density), m, s.particles), m.node_volumes)]

(***************************************************************************)
(* Values of the variables a specification does not use.                   *)
(***************************************************************************)
NoMesh == [dimensions |-> <<0, 0, 0>>]
NoSpecies == [particles |-> <<>>]
NoField == <<>>
NoSolver == [pc |-> "idle"]
NoCall == [op |-> "none"]

(***************************************************************************)
(* MeshSpec: construction of a mesh.                                       *)
(***************************************************************************)
MeshInit ==
    /\ mesh = NoMesh
    /\ species = NoSpecies
    /\ field = NoField
    /\ solver = NoSolver
    /\ call = NoCall

New(origin, max_bound, dimensions, timestep) ==
    /\ call.op = "none"
    /\ mesh' = BoxMeshNew(origin, max_bound, dimensions, timestep)
    /\ call' = [op |-> "new"]
    /\ UNCHANGED <<species, field, solver>>

MeshNext ==
    \E ox, oy \in {-1, 0}, lx, ly, lz \in 1..MaxLen, nx, ny, nz \in 3..MaxDim :
        New(Vec3(R(ox), R(oy), R(0)),
            Vec3(R(ox + lx), R(oy + ly), R(lz)),
            Dimensions(nx, ny, nz), ROne)

MeshSpec == MeshInit /\ [][MeshNext]_vars

\* the volume of the box [origin, max_bound]
DomainVolume(m) ==
    RMul(RMul(RSub(m.max_bound[1], m.origin[1]), RSub(m.max_bound[2], m.origin[2])),
         RSub(m.max_bound[3], m.origin[3]))

\* C3: for every mesh built by BoxMesh::new with dimensions >= 3 the node
\* volumes sum to the volume of the box [origin, max_bound], interior nodes
\* holding the full cell volume and each boundary axis halving it.
C3_VolumePartition ==
    call.op = "new" =>
        /\ FieldSum(mesh.node_volumes) = DomainVolume(mesh)
        /\ \A n \in Nodes(mesh.dimensions) :
              mesh.node_volumes.data[n] =
                 NodeVolume(mesh.cell_spacings, mesh.dimensions, n)

(***************************************************************************)
(* FieldSpec: one Field<f64>, cleared and scattered into.                  *)
(***************************************************************************)
FieldShapes == {d \in (3..MaxDim) \X (3..MaxDim) \X (3..MaxDim) : d[1] + d[2] + d[3] <= 10}

\* a field whose nodes all hold different non-zero values
RampField(d) ==
    [data |-> [n \in Nodes(d) |-> R(1 + n[1] + 5 * n[2] + 25 * n[3])], shape |-> d]

\* the coordinates drawn on one axis: from one step below 0 to one above dim-1
LcAxis(dim) == {Rat(k, LcDen) : k \in (-1)..(LcDen * (dim - 1) + 1)}

FieldInit ==
    /\ \E d \in FieldShapes : field \in {FieldNew(d), RampField(d)}
    /\ mesh = NoMesh
    /\ species = NoSpecies
    /\ solver = NoSolver
    /\ call = NoCall

ClearCall ==
    /\ call.op = "none"
    /\ field' = Clear(field)
    /\ call' = [op |-> "clear"]
    /\ UNCHANGED <<mesh, species, solver>>

ScatterCall(lc, value) ==
    /\ call.op \in {"none", "clear"}
    /\ field' = Scatter(field, lc, value)
    /\ call' = [op |-> "scatter", lc |-> lc, value |-> value, before |-> field]
    /\ UNCHANGED <<mesh, species, solver>>

FieldNext ==
    \/ ClearCall
    \/ \E x \in LcAxis(field.shape[1]), y \in LcAxis(field.shape[2]),
          z \in LcAxis(field.shape[3]), value \in {R(1), R(-3)} :
          ScatterCall(Vec3(x, y, z), value)

FieldSpec == FieldInit /\ [][FieldNext]_vars

\* lc lies in [0, dim-1) on every axis of the shape
InsideCells(shape, lc) ==
    \A c \in 1..3 : lc[c][1] >= 0 /\ lc[c][1] < (shape[c] - 1) * lc[c][2]

\* floor of a rational
Floor(a) == a[1] \div a[2]

\* the 8 corner nodes of the cell containing lc
CellCorners(lc) ==
    { <<Floor(lc[1]) + a, Floor(lc[2]) + b, Floor(lc[3]) + c>> : a, b, c \in {0, 1} }

\* C4: a scatter at a coordinate inside [0, dim-1) on every axis changes only
\* the 8 corner nodes of the cell containing it, its 8 weights sum to 1, and
\* the sum of the field over all nodes grows by exactly the scattered value.
C4_ScatterConserves ==
    (call.op = "scatter" /\ InsideCells(field.shape, call.lc)) =>
        /\ \A n \in Nodes(field.shape) \ CellCorners(call.lc) :
              field.data[n] = call.before.data[n]
        /\ SumTo(LAMBDA s : ScatterWeights(call.lc)[s + 1][2], 8) = ROne
        /\ FieldSum(field) = RAdd(FieldSum(call.before), call.value)

\* C4 witness: a scatter strictly inside a cell on every axis of a field that
\* held non-zero values, which changed all 8 corners
C4_Witness ==
    /\ call.op = "scatter"
    /\ InsideCells(field.shape, call.lc)
    /\ \A c \in 1..3 : call.lc[c][2] # 1
    /\ call.before = RampField(field.shape)
    /\ \A n \in CellCorners(call.lc) : field.data[n] # call.before.data[n]

\* C5: a scatter at a coordinate below 0 or at/above dim-1 on at least one
\* axis leaves every element of the field unchanged.
C5_ScatterOutsideNoOp ==
    (call.op = "scatter" /\ ~InsideCells(field.shape, call.lc)) =>
        field = call.before

\* C5 witness: a scatter exactly at dim-1 on one axis, inside on the others,
\* of a field that held non-zero values
C5_Witness ==
    /\ call.op = "scatter"
    /\ call.lc[1] = R(field.shape[1] - 1)
    /\ InsideCells(field.shape, <<RZero, call.lc[2], call.lc[3]>>)
    /\ call.before = RampField(field.shape)
    /\ field = call.before

(***************************************************************************)
(* SpeciesSpec: a mesh with an electric field and one species, which is    *)
(* given particles, advanced and deposited.                                *)
(***************************************************************************)
\* origin, max_bound, dimensions, timestep of the mesh; mass, charge of the species
SpeciesBoxes ==
    { <<Vec3(R(0), R(0), R(0)), Vec3(R(3), R(3), R(3)), Dimensions(3, 3, 3), ROne,
        R(1), R(1)>>,
      <<Vec3(R(-1), R(-1), R(-1)), Vec3(R(1), R(1), R(2)), Dimensions(3, 3, 4), RHalf,
        R(2), R(-1)>> }

\* a potential as solve_potential leaves it: 0 on the boundary, a on interior nodes
InteriorPotential(d, a) ==
    [ data |-> [n \in Nodes(d) |->
                  IF \E c \in 1..3 : n[c] = 0 \/ n[c] = d[c] - 1 THEN RZero
                  ELSE RMul(a, R(n[3]))],
      shape |-> d ]

\* particles offered to add_particle: logical coordinate, displacement per
\* timestep in cell spacings, macroparticle weight
ParticleInputs ==
    { <<Vec3(Rat(1, 2), Rat(1, 2), Rat(1, 2)), Vec3(Rat(1, 2), R(0), Rat(-1, 2)), R(1)>>,
      <<Vec3(Rat(7, 4), R(1), Rat(1, 4)), Vec3(Rat(1, 2), R(0), Rat(-1, 2)), R(3)>>,
      <<Vec3(Rat(1, 4), Rat(3, 2), Rat(5, 4)), Vec3(Rat(-1, 2), Rat(3, 4), Rat(1, 4)), R(2)>>,
      <<Vec3(Rat(5, 2), Rat(1, 4), Rat(3, 2)), Vec3(R(0), R(0), R(0)), R(1)>> }

\* the position with logical coordinate lc
PositionAt(m, lc) == [c \in 1..3 |-> RAdd(m.origin[c], RMul(lc[c], m.cell_spacings[c]))]

\* the velocity that moves u cell spacings per timestep
VelocityOf(m, u) == [c \in 1..3 |-> RDiv(RMul(u[c], m.cell_spacings[c]), m.timestep)]

\* In a non-zero field every step cubes the denominators of the coordinates,
\* so that a second step leaves the 32-bit integers of TLC.
AdvanceLimit(m) ==
    IF m.electric_field = VecFieldNew(m.dimensions) THEN MaxAdvances ELSE 1

SpeciesInit ==
    /\ \E box \in SpeciesBoxes, a \in {R(0), R(1)} :
          /\ mesh = ComputeElectricField(
                       [BoxMeshNew(box[1], box[2], box[3], box[4])
                           EXCEPT !.potential = InteriorPotential(box[3], a)])
          /\ species = SpeciesNew("s", box[5], box[6], box[3])
    /\ field = NoField
    /\ solver = NoSolver
    /\ call = [op |-> "new", advances |-> 0]

AddParticleCall(position, velocity, weight) ==
    /\ call.op \in {"new", "add_particle"}
    /\ Len(species.particles) < MaxParticles
    /\ species' = AddParticle(species, mesh, position, velocity, weight)
    /\ call' = [op |-> "add_particle", advances |-> 0, before |-> species,
                position |-> position, velocity |-> velocity, weight |-> weight]
    /\ UNCHANGED <<mesh, field, solver>>

\* gather is undefined at the position: the call may abort
AddParticleAbort(position) ==
    /\ call.op \in {"new", "add_particle"}
    /\ Len(species.particles) < MaxParticles
    /\ ~GatherDefined(mesh.dimensions, PositionToLogicalCoordinate(mesh, position))
    /\ call' = [op |-> "abort", advances |-> call.advances]
    /\ UNCHANGED <<mesh, species, field, solver>>

AdvanceCall ==
    /\ call.op # "abort"
    /\ call.advances < AdvanceLimit(mesh)
    /\ species.particles # <<>>
    /\ species' = Advance(species, mesh)
    /\ call' = [op |-> "advance", advances |-> call.advances + 1, before |-> species,
                moved |-> [p \in 1..Len(species.particles) |->
                             Moved(species, mesh, species.particles[p])]]
    /\ UNCHANGED <<mesh, field, solver>>

\* gather is undefined at the position of some particle: the call may abort
AdvanceAbort ==
    /\ call.op # "abort"
    /\ call.advances < AdvanceLimit(mesh)
    /\ \E p \in 1..Len(species.particles) :
          ~GatherDefined(mesh.dimensions,
                         PositionToLogicalCoordinate(mesh, species.particles[p].position))
    /\ call' = [op |-> "abort", advances |-> call.advances]
    /\ UNCHANGED <<mesh, species, field, solver>>

ComputeNumberDensityCall ==
    /\ call.op # "abort"
    /\ species' = ComputeNumberDensity(species, mesh)
    /\ call' = [op |-> "compute_number_density", advances |-> call.advances,
                before |-> species]
    /\ UNCHANGED <<mesh, field, solver>>

SpeciesNext ==
    \/ \E in \in ParticleInputs :
          \/ AddParticleCall(PositionAt(mesh, in[1]), VelocityOf(mesh, in[2]), in[3])
          \/ AddParticleAbort(PositionAt(mesh, in[1]))
    \/ AdvanceCall
    \/ AdvanceAbort
    \/ ComputeNumberDensityCall

SpeciesSpec == SpeciesInit /\ [][SpeciesNext]_vars

\* the logical coordinate of a particle
LcOf(particle) == PositionToLogicalCoordinate(mesh, particle.position)

\* C1: a particle whose logical coordinate is in [0, dim-1) on every axis
\* before advance and which moves less than one cell spacing on every axis
\* has a logical coordinate in [0, dim-1) on every axis after advance.
C1_AdvanceKeepsInside ==
    call.op = "advance" =>
        \A p \in 1..Len(species.particles) :
            LET before == call.before.particles[p]
                step == VSub(call.moved[p].position, before.position)
            IN  ( /\ InsideCells(mesh.dimensions, LcOf(before))
                  /\ \A c \in 1..3 :
                        /\ RLt(step[c], mesh.cell_spacings[c])
                        /\ RLt(RNeg(mesh.cell_spacings[c]), step[c]) )
                => InsideCells(mesh.dimensions, LcOf(species.particles[p]))

\* C2: on each axis advance reflects a particle (position mirrored at the
\* origin or max_bound plane, velocity component negated) exactly when its
\* logical coordinate after the move is below 0 or at/beyond dim-1.
C2_ReflectionTestsNewCoordinate ==
    call.op = "advance" =>
        \A p \in 1..Len(species.particles), c \in 1..3 :
            LET moved == call.moved[p]
                after == species.particles[p]
                lc == LcOf(moved)[c]
            IN  IF RLt(lc, RZero) THEN
                    /\ after.position[c] = RSub(RMul(R(2), mesh.origin[c]), moved.position[c])
                    /\ after.velocity[c] = RNeg(moved.velocity[c])
                ELSE IF RGe(lc, R(mesh.dimensions[c] - 1)) THEN
                    /\ after.position[c] = RSub(RMul(R(2), mesh.max_bound[c]), moved.position[c])
                    /\ after.velocity[c] = RNeg(moved.velocity[c])
                ELSE
                    /\ after.position[c] = moved.position[c]
                    /\ after.velocity[c] = moved.velocity[c]

\* the linear weight of a coordinate at a node index: 1 - |x - i|, at least 0
Hat(x, i) ==
    LET d == RSub(x, R(i))
        a == IF d[1] < 0 THEN RNeg(d) ELSE d
    IN  IF RLt(a, ROne) THEN RSub(ROne, a) ELSE RZero

\* the trilinear weight of a logical coordinate at node n
TrilinearWeight(lc, n) == RMul(RMul(Hat(lc[1], n[1]), Hat(lc[2], n[2])), Hat(lc[3], n[3]))

\* the weight the particles inside [0, dim-1)^3 deposit at node n
Deposit(particles, n) ==
    SumTo(LAMBDA q :
            IF InsideCells(mesh.dimensions, LcOf(particles[q + 1]))
            THEN RMul(TrilinearWeight(LcOf(particles[q + 1]), n),
                      particles[q + 1].macroparticle_weight)
            ELSE RZero,
          Len(particles))

\* C6: after compute_number_density, at every node the density times the
\* node volume is the weight deposited there by the particles inside
\* [0, dim-1)^3, whatever the density field held before; a second call
\* changes nothing.
C6_NumberDensity ==
    call.op = "compute_number_density" =>
        /\ \A n \in Nodes(mesh.dimensions) :
              RMul(species.number_density.data[n], mesh.node_volumes.data[n])
                 = Deposit(species.particles, n)
        /\ ComputeNumberDensity(species, mesh) = species

\* C6 witness: a deposit of a particle inside and a particle outside the
\* cells into a density field that held another non-zero density
C6_Witness ==
    /\ call.op = "compute_number_density"
    /\ call.before.number_density # FieldNew(mesh.dimensions)
    /\ call.before.number_density # species.number_density
    /\ \E p, q \in 1..Len(species.particles) :
          /\ InsideCells(mesh.dimensions, LcOf(species.particles[p]))
          /\ ~InsideCells(mesh.dimensions, LcOf(species.particles[q]))

(***************************************************************************)
(* SolverSpec: a mesh whose charge density is set from a species and whose *)
(* potential is solved, one iteration of the loop of solve_potential per   *)
(* step.  solver holds the locals of the call in progress and, for the     *)
(* properties, the potential at the call, the number of sweeps made and    *)
(* the residual checks made.                                               *)
(***************************************************************************)
\* origin, max_bound, dimensions of the meshes solved
SolverBoxes ==
    { <<Vec3(R(0), R(0), R(0)), Vec3(R(3), R(3), R(3)), Dimensions(3, 3, 3)>>,
      <<Vec3(R(0), R(0), R(0)), Vec3(R(2), R(3), R(3)), Dimensions(4, 3, 3)>> }

UniformField(d, v) == [data |-> [n \in Nodes(d) |-> v], shape |-> d]

SolverInit ==
    /\ \E box \in SolverBoxes :
          /\ mesh = BoxMeshNew(box[1], box[2], box[3], ROne)
          /\ \E charge \in {R(1), R(-1)} :
             \E density \in {FieldNew(box[3]), UniformField(box[3], Rat(3, 10)), RampField(box[3])} :
                species = [SpeciesNew("s", R(1), charge, box[3])
                              EXCEPT !.number_density = density]
    /\ field = NoField
    /\ solver = NoSolver
    /\ call = [op |-> "new"]

ComputeChargeDensityCall ==
    /\ solver.pc \in {"idle", "done"}
    /\ mesh' = ComputeChargeDensity(mesh, <<species>>)
    /\ call' = [op |-> "compute_charge_density"]
    /\ UNCHANGED <<species, field, solver>>

\* entry of solve_potential: the locals before the loop
SolvePotentialCall(max_solver_iterations, tolerance) ==
    /\ solver.pc \in {"idle", "done"}
    /\ solver' = [ pc |-> IF max_solver_iterations = 0 THEN "done" ELSE "loop",
                   iteration |-> 0,
                   converged |-> FALSE,
                   max_solver_iterations |-> max_solver_iterations,
                   tolerance |-> tolerance,
                   phi0 |-> mesh.potential,
                   sweeps |-> 0,
                   checks |-> <<>> ]
    /\ call' = [op |-> "solve_potential"]
    /\ UNCHANGED <<mesh, species, field>>

\* one iteration of `for iteration in 0..max_solver_iterations`: the sweep,
\* then on a checking iteration the residual and the break
Iterate ==
    /\ solver.pc = "loop"
    /\ LET swept == Sweep(mesh)
           checks == ChecksConvergence(solver.iteration)
           sum == ResidualSum(swept)
           below == NormBelow(sum, SolverVolume(swept), solver.tolerance)
       IN  /\ mesh' = swept
           /\ solver' =
                [solver EXCEPT
                   !.sweeps = @ + 1,
                   !.checks = IF checks
                              THEN Append(@, [iteration |-> solver.iteration,
                                              sum |-> sum, below |-> below])
                              ELSE @,
                   !.converged = checks /\ below,
                   !.iteration = IF checks /\ below THEN @ ELSE @ + 1,
                   !.pc = IF (checks /\ below)
                             \/ solver.iteration + 1 = solver.max_solver_iterations
                          THEN "done" ELSE "loop"]
    /\ UNCHANGED <<species, field, call>>

SolverNext ==
    \/ ComputeChargeDensityCall
    \/ \E max_solver_iterations \in {0, 1, 26, 51, MaxSweeps},
          tolerance \in {Rat(7, 100), Rat(1, 1000)} :
          SolvePotentialCall(max_solver_iterations, tolerance)
    \/ Iterate

SolverSpec == SolverInit /\ [][SolverNext]_vars
Boundary(d) ==
    {n \in Nodes(d) : \E c \in 1..3 : n[c] = 0 \/ n[c] = d[c] - 1}

InCall == solver.pc \in {"loop", "done"}

\* the stopping rule as a predicate on the locals of the call
StoppingRule ==
    InCall =>
        /\ solver.sweeps <= solver.max_solver_iterations
        /\ Len(solver.checks) =
              IF solver.sweeps = 0 THEN 0 ELSE (solver.sweeps - 1) \div 25
        /\ \A k \in 1..Len(solver.checks) :
              /\ solver.checks[k].iteration = 25 * k
              /\ solver.checks[k].below => k = Len(solver.checks)
        /\ solver.converged <=>
              (Len(solver.checks) > 0 /\ solver.checks[Len(solver.checks)].below)
        /\ solver.converged =>
              /\ solver.pc = "done"
              /\ solver.sweeps = solver.checks[Len(solver.checks)].iteration + 1
        /\ (solver.pc = "done" /\ ~solver.converged) =>
              solver.sweeps = solver.max_solver_iterations
        /\ solver.pc = "loop" => solver.sweeps < solver.max_solver_iterations

\* a step of a call in progress is one more sweep of the same call
LoopStep ==
    solver.pc = "loop" =>
        /\ solver'.pc \in {"loop", "done"}
        /\ solver'.sweeps = solver.sweeps + 1
        /\ solver'.max_solver_iterations = solver.max_solver_iterations
        /\ solver'.tolerance = solver.tolerance

\* C7: the residual is evaluated only after the sweeps of iterations 25, 50,
\* ... and after each of them; the call returns true after the sweep of the
\* first check that is below tolerance, otherwise it makes exactly
\* max_solver_iterations sweeps and returns false; it never makes more
\* sweeps than that, and since every step of a call in progress is one more
\* sweep, the call ends within max_solver_iterations steps.
C7_StoppingRule ==
    /\ []StoppingRule
    /\ [][LoopStep]_vars

\* a call that returned true at its second check, the first having failed
C7_Witness ==
    /\ solver.pc = "done"
    /\ solver.converged
    /\ Len(solver.checks) = 2
    /\ ~solver.checks[1].below
    /\ solver.sweeps = 51

\* C8: during and after a call of solve_potential every boundary node holds
\* the potential it held at the call, and that potential is 0 on a mesh
\* whose potential only solve_potential changes.
C8_BoundaryNeverWritten ==
    /\ InCall =>
          \A n \in Boundary(mesh.dimensions) :
              mesh.potential.data[n] = solver.phi0.data[n]
    /\ \A n \in Boundary(mesh.dimensions) : mesh.potential.data[n] = RZero

\* a finished call whose sweeps changed an interior potential
C8_Witness ==
    /\ solver.pc = "done"
    /\ solver.sweeps >= 26
    /\ \E n \in Nodes(mesh.dimensions) \ Boundary(mesh.dimensions) :
          /\ mesh.potential.data[n] # solver.phi0.data[n]
          /\ mesh.potential.data[n] # RZero

ZeroField(f) == \A n \in Nodes(f.shape) : f.data[n] = RZero

\* C10: a call made with zero charge density and zero potential leaves the
\* potential zero at every node after every sweep.
C10_ZeroStaysZero ==
    (InCall /\ ZeroField(mesh.charge_density) /\ ZeroField(solver.phi0)) =>
        ZeroField(mesh.potential)

\* the end of a call of 26 sweeps made from zero charge and zero potential
C10_Witness ==
    /\ solver.pc = "done"
    /\ solver.sweeps = 26
    /\ ZeroField(mesh.charge_density)
    /\ ZeroField(solver.phi0)
    /\ ZeroField(mesh.potential)

\* C11: a call made with zero charge density and zero potential, with
\* max_solver_iterations >= 1 and tolerance > 0, returns true.
C11_ZeroConverges ==
    ( /\ solver.pc = "done"
      /\ ZeroField(mesh.charge_density)
      /\ ZeroField(solver.phi0)
      /\ solver.max_solver_iterations >= 1
      /\ RLt(RZero, solver.tolerance) )
    => solver.converged

(***************************************************************************)
(* ChargeSpec: a mesh and a list of species, as the driver holds them.     *)
(* Here species is the Vec<Species>; species are pushed onto it and the    *)
(* charge density is computed from it.                                     *)
(***************************************************************************)
ChargeShapes == {Dimensions(3, 3, 3), Dimensions(3, 4, 3)}

SpeciesWithDensity(charge, density) ==
    [SpeciesNew("s", ROne, charge, density.shape) EXCEPT !.number_density = density]

ChargeInit ==
    /\ \E d \in ChargeShapes :
          mesh = BoxMeshNew(VZero, Vec3(R(3), R(3), R(3)), d, ROne)
    /\ species = <<>>
    /\ field = NoField
    /\ solver = NoSolver
    /\ call = [op |-> "new"]

\* Vec::push of a species onto the list
PushSpecies(charge, density) ==
    /\ Len(species) < MaxSpecies
    /\ species' = Append(species, SpeciesWithDensity(charge, density))
    /\ call' = [op |-> "push"]
    /\ UNCHANGED <<mesh, field, solver>>

ComputeChargeDensityOfList ==
    /\ mesh' = ComputeChargeDensity(mesh, species)
    /\ call' = [op |-> "compute_charge_density", before |-> mesh.charge_density]
    /\ UNCHANGED <<species, field, solver>>

ChargeNext ==
    \/ \E charge \in {R(-1), R(0), R(2)} :
       \E density \in {UniformField(mesh.dimensions, Rat(1, 2)), RampField(mesh.dimensions)} :
          PushSpecies(charge, density)
    \/ ComputeChargeDensityOfList

ChargeSpec == ChargeInit /\ [][ChargeNext]_vars

\* C12: after compute_charge_density the charge density at every node is
\* the sum over every species of the list, zero-charge ones included, of
\* charge * number_density there, whatever the charge density held before.
C12_ChargeDensity ==
    call.op = "compute_charge_density" =>
        \A n \in Nodes(mesh.dimensions) :
            mesh.charge_density.data[n] =
                SumTo(LAMBDA s : RMul(species[s + 1].charge,
                                      species[s + 1].number_density.data[n]),
                      Len(species))

\* a call over a zero-charge and a charged species on a mesh that held a
\* different, non-zero charge density before
C12_Witness ==
    /\ call.op = "compute_charge_density"
    /\ \E s \in 1..Len(species) : species[s].charge = RZero
    /\ \E s \in 1..Len(species) : species[s].charge # RZero
    /\ ~ZeroField(call.before)
    /\ call.before # mesh.charge_density

(***************************************************************************)
(* ElectricSpec: compute_electric_field applied to meshes whose potential  *)
(* is linear along one axis.                                               *)
(***************************************************************************)
Slopes == {R(-2), Rat(1, 2), R(3)}

Offsets == {R(0), R(1)}

\* the position of node n on axis c
NodePosition(m, n, c) == RAdd(m.origin[c], RMul(R(n[c]), m.cell_spacings[c]))

\* offset + slope * (position on axis c)
LinearPotential(m, c, slope, offset) ==
    [data |-> [n \in Nodes(m.dimensions) |->
                  RAdd(offset, RMul(slope, NodePosition(m, n, c)))],
     shape |-> m.dimensions]

ElectricInit ==
    /\ \E d \in FieldShapes, far \in {R(3), R(2)}, c \in 1..3,
          slope \in Slopes, offset \in Offsets :
          LET m == BoxMeshNew(Vec3(R(-1), R(0), R(0)), Vec3(far, R(3), R(3)), d, ROne)
          IN  mesh = [m EXCEPT !.potential = LinearPotential(m, c, slope, offset)]
    /\ species = NoSpecies
    /\ field = NoField
    /\ solver = NoSolver
    /\ call = [op |-> "new"]

ComputeElectricFieldCall ==
    /\ mesh' = ComputeElectricField(mesh)
    /\ call' = [op |-> "compute_electric_field", before |-> mesh]
    /\ UNCHANGED <<species, field, solver>>

ElectricNext == ComputeElectricFieldCall

ElectricSpec == ElectricInit /\ [][ElectricNext]_vars

\* C13: when the potential is linear along one axis with slope m per unit
\* length, compute_electric_field gives at every node, interior and
\* boundary, the component -m on that axis and 0 on the two others, and
\* leaves the potential as it was.
C13_LinearPotentialField ==
    call.op = "compute_electric_field" =>
        /\ mesh.potential = call.before.potential
        /\ \A c \in 1..3, slope \in Slopes, offset \in Offsets :
              mesh.potential = LinearPotential(mesh, c, slope, offset) =>
                  \A n \in Nodes(mesh.dimensions) :
                      mesh.electric_field.data[n] =
                          [a \in 1..3 |-> IF a = c THEN RNeg(slope) ELSE RZero]

\* the field computed on a four-node axis from a potential of slope 1/2
C13_Witness ==
    /\ call.op = "compute_electric_field"
    /\ mesh.dimensions[2] = 4
    /\ \E offset \in Offsets :
          mesh.potential = LinearPotential(mesh, 2, Rat(1, 2), offset)
    /\ mesh.electric_field.data[<<0, 0, 0>>] = <<RZero, Rat(-1, 2), RZero>>
    /\ mesh.electric_field.data[<<1, 3, 1>>] = <<RZero, Rat(-1, 2), RZero>>

(***************************************************************************)
(* LoadSpec: a species, empty or holding one particle, loaded once into a   *)
(* mesh with zero electric field, by the quiet start or by the random      *)
(* load.  rng is the sequence of values the random generator yields.       *)
(***************************************************************************)
\* origin and opposite corner of the boxes loaded; the mesh is [0, 3]^3 with
\* three nodes per axis, so gather is defined up to the position 2
LoadBoxes ==
    { <<Vec3(R(0), R(0), R(0)), Vec3(R(2), R(2), R(2))>>,
      <<Vec3(Rat(1, 2), R(0), R(1)), Vec3(Rat(3, 2), R(1), R(2))>>,
      <<Vec3(R(0), R(0), R(0)), Vec3(R(3), R(3), R(3))>> }

LoadInit ==
    /\ mesh = ComputeElectricField(
                  BoxMeshNew(VZero, Vec3(R(3), R(3), R(3)), Dimensions(3, 3, 3), ROne))
    /\ \E charge \in {R(1), R(-1)} :
          species \in
            { SpeciesNew("s", ROne, charge, Dimensions(3, 3, 3)),
              AddParticle(SpeciesNew("s", ROne, charge, Dimensions(3, 3, 3)), mesh,
                          Vec3(R(1), Rat(1, 2), R(1)), Vec3(R(1), R(0), R(0)), R(5)) }
    /\ field = NoField
    /\ solver = NoSolver
    /\ call = [op |-> "new"]

LoadParticlesBoxQsCall(origin, opposite, number_density, num_macroparticles) ==
    /\ call.op = "new"
    /\ species' = LoadParticlesBoxQs(species, mesh, origin, opposite, number_density,
                                     num_macroparticles)
    /\ call' = [op |-> "load_particles_box_qs", before |-> species,
                origin |-> origin, opposite |-> opposite,
                number_density |-> number_density,
                num_macroparticles |-> num_macroparticles]
    /\ UNCHANGED <<mesh, field, solver>>

LoadParticlesBoxCall(origin, opposite, number_density, num_macroparticles, rng) ==
    /\ call.op = "new"
    /\ species' = LoadParticlesBox(species, mesh, origin, opposite, number_density,
                                   num_macroparticles, rng)
    /\ call' = [op |-> "load_particles_box", before |-> species,
                origin |-> origin, opposite |-> opposite,
                number_density |-> number_density,
                num_macroparticles |-> num_macroparticles, rng |-> rng]
    /\ UNCHANGED <<mesh, field, solver>>

\* a load over a box that leaves the range of gather: add_particle may abort
LoadAbort(origin, opposite) ==
    /\ call.op = "new"
    /\ ~GatherDefined(mesh.dimensions, PositionToLogicalCoordinate(mesh, opposite))
    /\ call' = [op |-> "abort"]
    /\ UNCHANGED <<mesh, species, field, solver>>

LoadNext ==
    \E box \in LoadBoxes :
        \/ \E number_density \in {R(1), R(6)},
              num_macroparticles \in (2..MaxGrid) \X (2..MaxGrid) \X (2..MaxGrid) :
              LoadParticlesBoxQsCall(box[1], box[2], number_density, num_macroparticles)
        \/ \E num_macroparticles \in {1, 2} :
           \E rng \in [1..(3 * num_macroparticles) -> {RZero, RHalf}] :
              LoadParticlesBoxCall(box[1], box[2], R(6), num_macroparticles, rng)
        \/ LoadAbort(box[1], box[2])

LoadSpec == LoadInit /\ [][LoadNext]_vars

\* the volume of the box a load was called with
LoadVolume ==
    RMul(RMul(RSub(call.opposite[1], call.origin[1]), RSub(call.opposite[2], call.origin[2])),
         RSub(call.opposite[3], call.origin[3]))

\* the q-th particle the load added
Loaded(q) == species.particles[Len(call.before.particles) + q]

\* the particle of lattice index <<i, j, k>>, k running fastest
LoadedAt(i, j, k) ==
    Loaded(1 + k + call.num_macroparticles[3] * (j + call.num_macroparticles[2] * i))

\* the number of axes on which index ijk lies on the first or last plane
EdgeAxes(ijk, n) == Cardinality({c \in 1..3 : ijk[c] = 0 \/ ijk[c] = n[c] - 1})

\* C14: a quiet start over an nx x ny x nz lattice adds nx*ny*nz particles;
\* each weighs rho*V/((nx-1)(ny-1)(nz-1)) halved once per axis on which it
\* lies on the first or last plane, and the weights add up to rho*V.
C14_QuietStartWeights ==
    call.op = "load_particles_box_qs" =>
        LET n == call.num_macroparticles
            full == RDiv(RMul(call.number_density, LoadVolume),
                         R((n[1] - 1) * (n[2] - 1) * (n[3] - 1)))
        IN  /\ Len(species.particles) = Len(call.before.particles) + n[1] * n[2] * n[3]
            /\ \A i \in 0..(n[1] - 1), j \in 0..(n[2] - 1), k \in 0..(n[3] - 1) :
                  LoadedAt(i, j, k).macroparticle_weight =
                      RMul(full, Rat(1, 2 ^ EdgeAxes(<<i, j, k>>, n)))
            /\ SumTo(LAMBDA i : SumTo(LAMBDA j : SumTo(LAMBDA k :
                        LoadedAt(i, j, k).macroparticle_weight, n[3]), n[2]), n[1])
                  = RMul(call.number_density, LoadVolume)

\* a 3 x 3 x 3 quiet start of density 6 over a unit box, onto a species that
\* held a particle: the centre particle weighs 3/4, the first corner 3/32
C14_Witness ==
    /\ call.op = "load_particles_box_qs"
    /\ call.num_macroparticles = <<3, 3, 3>>
    /\ call.number_density = R(6)
    /\ LoadVolume = ROne
    /\ Len(call.before.particles) = 1
    /\ LoadedAt(1, 1, 1).macroparticle_weight = Rat(3, 4)
    /\ LoadedAt(0, 0, 0).macroparticle_weight = Rat(3, 32)

\* C20: a random load adds count particles of weight rho*V/count and zero
\* velocity, and the three coordinates of each particle come from three
\* values of the random generator of their own.
C20_RandomLoadIndependent ==
    call.op = "load_particles_box" =>
        /\ Len(species.particles) = Len(call.before.particles) + call.num_macroparticles
        /\ \A p \in 1..call.num_macroparticles :
              /\ Loaded(p).macroparticle_weight =
                    RDiv(RMul(call.number_density, LoadVolume), R(call.num_macroparticles))
              /\ Loaded(p).velocity = VZero
              /\ \A c \in 1..3 :
                    Loaded(p).position[c] =
                        RAdd(call.origin[c],
                             RMul(call.rng[3 * (p - 1) + c],
                                  RSub(call.opposite[c], call.origin[c])))

(***************************************************************************)
(* DriverSpec: the control flow of simulate, the grounded-box driver.  The *)
(* driver passes no data from one call to the choice of the next, so the   *)
(* fields are followed by the iteration that last computed them (-1 before *)
(* the loop, -2 never) instead of by their values.  call is the driver's   *)
(* position: pc, the loop iteration, the species of the inner loop and the *)
(* log of the calls made so far.  A number density carries the version of  *)
(* the positions it was deposited from (deposited), the charge density the *)
(* versions of the number densities it was summed from (charge_source).    *)
(***************************************************************************)
NumSpecies == 2

\* the version of the positions of a species: the iteration of its last
\* advance, or of its load before any advance
PositionVersion(s) == IF s.advanced # -2 THEN s.advanced ELSE s.particles

\* the step that follows a step of the loop body; last tells whether the
\* inner loop is at the last species
AfterAdvancingFirst(pc, last) ==
    CASE pc = "compute_charge_density" -> "solve_potential"
      [] pc = "solve_potential" -> "advance"
      [] pc = "compute_electric_field" -> "output"
      [] pc = "advance" -> "compute_number_density"
      [] pc = "compute_number_density" -> IF last THEN "compute_electric_field" ELSE "advance"
      [] pc = "output" -> "loop"

After(pc, last) ==
    CASE pc = "compute_charge_density" -> "solve_potential"
      [] pc = "solve_potential" -> "compute_electric_field"
      [] pc = "compute_electric_field" -> "advance"
      [] pc = "advance" -> "compute_number_density"
      [] pc = "compute_number_density" -> IF last THEN "output" ELSE "advance"
      [] pc = "output" -> "loop"

Logged(op, s) == Append(call.log, [op |-> op, iteration |-> call.iteration, s |-> s])

DriverInit ==
    /\ mesh = [charge_density |-> -2, potential |-> -2, electric_field |-> -2,
               charge_source |-> <<>>]
    /\ species = <<>>
    /\ field = NoField
    /\ solver = NoSolver
    /\ call = [pc |-> "initial_solve", iteration |-> -1, s |-> 0, log |-> <<>>]

\* grounded_box.rs:25; the result of the call is dropped
DriverInitialSolve(converged) ==
    /\ call.pc = "initial_solve"
    /\ mesh' = [mesh EXCEPT !.potential = -1]
    /\ call' = [call EXCEPT !.pc = "initial_field", !.log = Append(call.log, [op |-> "solve_potential", iteration |-> -1,
                                    s |-> 0, converged |-> converged])]
    /\ solver' = [pc |-> "done", converged |-> converged]
    /\ UNCHANGED <<species, field>>

DriverInitialField ==
    /\ call.pc = "initial_field"
    /\ mesh' = [mesh EXCEPT !.electric_field = -1]
    /\ call' = [call EXCEPT !.pc = "species", !.log = Logged("compute_electric_field", 0)]
    /\ UNCHANGED <<species, field, solver>>

DriverNewSpecies ==
    /\ call.pc = "species"
    /\ species' = [s \in 1..NumSpecies |->
                      [particles |-> -2, advanced |-> -2, number_density |-> -2,
                       deposited |-> -2]]
    /\ call' = [call EXCEPT !.pc = "load", !.s = 1]
    /\ UNCHANGED <<mesh, field, solver>>

DriverLoad ==
    /\ call.pc = "load"
    /\ species' = [species EXCEPT ![call.s].particles = -1]
    /\ call' = [call EXCEPT !.pc = IF call.s = NumSpecies THEN "loop" ELSE "load",
                            !.s = IF call.s = NumSpecies THEN 0 ELSE call.s + 1,
                            !.log = Logged("load_particles_box_qs", call.s)]
    /\ UNCHANGED <<mesh, field, solver>>

\* for iteration in 0..SIMULATION_ITERATIONS
DriverLoop ==
    /\ call.pc = "loop"
    /\ call' = [call EXCEPT
                  !.iteration = call.iteration + 1,
                  !.pc = IF call.iteration + 1 < MaxSimulationIterations
                         THEN "compute_charge_density" ELSE "returned"]
    /\ UNCHANGED <<mesh, species, field, solver>>

DriverChargeDensity ==
    /\ call.pc = "compute_charge_density"
    /\ mesh' = [mesh EXCEPT !.charge_density = call.iteration,
                            !.charge_source = [s \in 1..NumSpecies |-> species[s].deposited]]
    /\ call' = [call EXCEPT !.pc = After(call.pc, FALSE),
                            !.log = Logged("compute_charge_density", 0)]
    /\ UNCHANGED <<species, field, solver>>

DriverSolve(converged) ==
    /\ call.pc = "solve_potential"
    /\ mesh' = [mesh EXCEPT !.potential = call.iteration]
    /\ solver' = [pc |-> "done", converged |-> converged]
    /\ call' = [call EXCEPT !.pc = After(call.pc, FALSE),
                            !.s = 1,
                            !.log = Append(call.log,
                                           [op |-> "solve_potential",
                                            iteration |-> call.iteration,
                                            s |-> 0, converged |-> converged])]
    /\ UNCHANGED <<species, field>>

DriverField ==
    /\ call.pc = "compute_electric_field"
    /\ mesh' = [mesh EXCEPT !.electric_field = call.iteration]
    /\ call' = [call EXCEPT !.pc = After(call.pc, FALSE),
                            !.s = 1,
                            !.log = Logged("compute_electric_field", 0)]
    /\ UNCHANGED <<species, field, solver>>

DriverAdvance ==
    /\ call.pc = "advance"
    /\ species' = [species EXCEPT ![call.s].advanced = call.iteration]
    /\ call' = [call EXCEPT !.pc = After(call.pc, call.s = NumSpecies),
                            !.log = Append(Logged("advance", call.s),
                                           [op |-> "field_read",
                                            iteration |-> mesh.electric_field,
                                            s |-> call.s])]
    /\ UNCHANGED <<mesh, field, solver>>

DriverNumberDensity ==
    /\ call.pc = "compute_number_density"
    /\ species' = [species EXCEPT ![call.s].number_density = call.iteration,
                                  ![call.s].deposited = PositionVersion(species[call.s])]
    /\ call' = [call EXCEPT !.pc = After(call.pc, call.s = NumSpecies),
                            !.s = IF call.s = NumSpecies THEN 1 ELSE call.s + 1,
                            !.log = Logged("compute_number_density", call.s)]
    /\ UNCHANGED <<mesh, field, solver>>

\* vtk_output on the iterations that write, where its error ends simulate;
\* on the other iterations the step passes
DriverOutput(ok) ==
    /\ call.pc = "output"
    /\ \/ call.iteration = 0
       \/ call.iteration % 100 = 0
       \/ call.iteration = MaxSimulationIterations
       \/ ok
    /\ call' = [call EXCEPT !.pc = IF ok THEN After(call.pc, FALSE) ELSE "failed"]
    /\ UNCHANGED <<mesh, species, field, solver>>

DriverNext ==
    \/ \E converged \in BOOLEAN : DriverInitialSolve(converged)
    \/ DriverInitialField
    \/ DriverNewSpecies
    \/ DriverLoad
    \/ DriverLoop
    \/ DriverChargeDensity
    \/ \E converged \in BOOLEAN : DriverSolve(converged)
    \/ DriverField
    \/ DriverAdvance
    \/ DriverNumberDensity
    \/ \E ok \in BOOLEAN : DriverOutput(ok)

DriverSpec == DriverInit /\ [][DriverNext]_vars

\* the calls logged before the loop: the first solve, the first field, the loads
Preamble == 2 + NumSpecies

\* the entries one iteration logs: three mesh calls, then per species the
\* advance, the field it read and the number density
PerIteration == 3 + 3 * NumSpecies

\* the operation at place r of an iteration, places counted from 0
ExpectedOp(r) ==
    IF r = 0 THEN "compute_charge_density"
    ELSE IF r = 1 THEN "solve_potential"
    ELSE IF r = 2 THEN "compute_electric_field"
    ELSE IF (r - 3) % 3 = 0 THEN "advance"
    ELSE IF (r - 3) % 3 = 1 THEN "field_read"
    ELSE "compute_number_density"

\* C15: in every iteration the driver calls compute_charge_density,
\* solve_potential, compute_electric_field and then, species by species,
\* advance and that species' compute_number_density; every advance reads
\* the electric field computed in its own iteration, and the calls of an
\* iteration are all made before the first call of the next.
C15_DriverOrder ==
    \A k \in 1..(Len(call.log) - Preamble) :
        LET entry == call.log[Preamble + k]
            it == (k - 1) \div PerIteration
            r == (k - 1) % PerIteration
        IN  /\ entry.op = ExpectedOp(r)
            /\ entry.iteration = it
            /\ entry.s = IF r < 3 THEN 0 ELSE 1 + ((r - 3) \div 3)

\* the driver has returned after three full iterations
C15_Witness ==
    /\ call.pc = "returned"
    /\ Len(call.log) >= Preamble + 3 * PerIteration
    /\ call.log[Len(call.log)].op = "compute_number_density"
    /\ call.log[Len(call.log)].s = NumSpecies

\* the electric field gathered where the last add_particle was called
FieldAtAdded ==
    Gather(mesh.electric_field, PositionToLogicalCoordinate(mesh, call.position))

\* C16: add_particle appends one particle with the supplied position and
\* weight and the velocity v - 0.5 * (charge/mass) * E * timestep, E being
\* the field gathered at the particle; the particles held before and the
\* rest of the species are unchanged, and where E is zero the stored
\* velocity is the supplied one.
C16_AddParticle ==
    call.op = "add_particle" =>
        LET added == species.particles[Len(species.particles)]
            half_kick == RMul(RMul(RHalf, RDiv(species.charge, species.mass)), mesh.timestep)
        IN  /\ Len(species.particles) = Len(call.before.particles) + 1
            /\ \A p \in 1..Len(call.before.particles) :
                  species.particles[p] = call.before.particles[p]
            /\ [species EXCEPT !.particles = <<>>] = [call.before EXCEPT !.particles = <<>>]
            /\ added.position = call.position
            /\ added.macroparticle_weight = call.weight
            /\ \A c \in 1..3 :
                  added.velocity[c] = RSub(call.velocity[c], RMul(half_kick, FieldAtAdded[c]))
            /\ FieldAtAdded = VZero => added.velocity = call.velocity

\* a second particle added where the field is not zero
C16_Witness ==
    /\ call.op = "add_particle"
    /\ Len(call.before.particles) = 1
    /\ GatherDefined(mesh.dimensions, PositionToLogicalCoordinate(mesh, call.position))
    /\ FieldAtAdded # VZero
    /\ species.particles[2].velocity # call.velocity

(***************************************************************************)
(* GatherSpec: gather of the single-particle simulation, the gather whose  *)
(* body is among the sources.  field is the Vec<f64> it reads, element i   *)
(* of the Vec being field[i + 1].  An index past the end of a Vec panics.  *)
(***************************************************************************)
\* f64::trunc: the integer part, rounded toward zero
Trunc(a) == IF a[1] < 0 THEN -((-a[1]) \div a[2]) ELSE a[1] \div a[2]

\* f64::fract: what trunc leaves, with the sign of the number
Fract(a) == RSub(a, R(Trunc(a)))

\* `logical_coordinate.trunc() as usize`: a negative value casts to 0
LeftNodeIndex(logical_coordinate) ==
    IF Trunc(logical_coordinate) < 0 THEN 0 ELSE Trunc(logical_coordinate)

\* the Vec indices gather reads
GatherReads(logical_coordinate) ==
    {LeftNodeIndex(logical_coordinate), LeftNodeIndex(logical_coordinate) + 1}

\* the value gather returns when both indices are inside the Vec
Gather1D(logical_coordinate, f) ==
    LET left_node_index == LeftNodeIndex(logical_coordinate)
        right_node_index == left_node_index + 1
        fractional_distance == Fract(logical_coordinate)
    IN  RAdd(RMul(f[left_node_index + 1], RSub(ROne, fractional_distance)),
             RMul(f[right_node_index + 1], fractional_distance))

GatherInit ==
    /\ \E len \in 3..MaxDim, a \in {-2, 1, 3}, b \in {0, 5} :
          field = [i \in 1..len |-> R(a * (i - 1) + b)]
    /\ mesh = NoMesh
    /\ species = NoSpecies
    /\ solver = NoSolver
    /\ call = NoCall

GatherCall(logical_coordinate) ==
    /\ \A i \in GatherReads(logical_coordinate) : i < Len(field)
    /\ call' = [op |-> "gather", lc |-> logical_coordinate,
                result |-> Gather1D(logical_coordinate, field)]
    /\ UNCHANGED <<mesh, species, field, solver>>

GatherPanic(logical_coordinate) ==
    /\ \E i \in GatherReads(logical_coordinate) : i >= Len(field)
    /\ call' = [op |-> "panic", lc |-> logical_coordinate]
    /\ UNCHANGED <<mesh, species, field, solver>>

GatherNext ==
    \E logical_coordinate \in LcAxis(Len(field)) :
        \/ GatherCall(logical_coordinate)
        \/ GatherPanic(logical_coordinate)

GatherSpec == GatherInit /\ [][GatherNext]_vars

\* C17: gather at a logical coordinate in [0, dim-1], dim-1 included, reads
\* only nodes of the field and returns a value.
C17_GatherDefinedInside ==
    ( /\ call.op \in {"gather", "panic"}
      /\ RGe(call.lc, RZero)
      /\ ~RLt(R(Len(field) - 1), call.lc) )
    => /\ call.op = "gather"
       /\ \A i \in GatherReads(call.lc) : i \in 0..(Len(field) - 1)

(***************************************************************************)
(* DualSpec: a scalar field that is scattered into and gathered from at    *)
(* the same coordinate.  Field::gather on a scalar field is the gather of  *)
(* the vector field applied to the value as first component.               *)
(***************************************************************************)
GatherScalar(f, lc) ==
    Gather([data |-> [n \in Nodes(f.shape) |-> <<f.data[n], RZero, RZero>>],
            shape |-> f.shape], lc)[1]

DualInit ==
    /\ \E d \in {Dimensions(3, 3, 3), Dimensions(3, 4, 3)} :
          field \in {FieldNew(d), RampField(d)}
    /\ mesh = NoMesh
    /\ species = NoSpecies
    /\ solver = NoSolver
    /\ call = NoCall

\* gather at lc, after a scatter at the same lc or on the initial field
GatherFieldCall(lc) ==
    /\ \/ call.op = "none"
       \/ call.op = "scatter" /\ call.lc = lc
    /\ GatherDefined(field.shape, lc)
    /\ call' = [op |-> "gather", lc |-> lc, result |-> GatherScalar(field, lc),
                scattered |-> IF call.op = "scatter" THEN <<call.value, call.before>> ELSE <<>>]
    /\ UNCHANGED <<mesh, species, field, solver>>

\* gather is undefined at lc: the call may abort
GatherFieldAbort(lc) ==
    /\ \/ call.op = "none"
       \/ call.op = "scatter" /\ call.lc = lc
    /\ ~GatherDefined(field.shape, lc)
    /\ call' = [op |-> "abort", lc |-> lc]
    /\ UNCHANGED <<mesh, species, field, solver>>

DualNext ==
    \E x \in LcAxis(field.shape[1]), y \in LcAxis(field.shape[2]),
       z \in LcAxis(field.shape[3]) :
        \/ ScatterCall(Vec3(x, y, z), R(1))
        \/ GatherFieldCall(Vec3(x, y, z))
        \/ GatherFieldAbort(Vec3(x, y, z))

DualSpec == DualInit /\ [][DualNext]_vars

\* lc is the coordinate of a node of the shape
AtNode(shape, lc) ==
    \A c \in 1..3 : lc[c][2] = 1 /\ lc[c][1] \in 0..(shape[c] - 1)

\* the gather that followed a scatter of a unit into a zero field at lc
UnitRoundTrip ==
    /\ call.op = "gather"
    /\ call.scattered # <<>>
    /\ call.scattered[1] = ROne
    /\ call.scattered[2] = FieldNew(field.shape)

\* a gather at i + d on axis c and at node indices on the two other axes
\* returns (1 - d) * f[i] + d * f[i + 1]
LinearOnAxis(c) ==
    LET i == Min(Floor(call.lc[c]), field.shape[c] - 2)
        d == RSub(call.lc[c], R(i))
        node(o) == <<IF c = 1 THEN i + o ELSE Floor(call.lc[1]),
                     IF c = 2 THEN i + o ELSE Floor(call.lc[2]),
                     IF c = 3 THEN i + o ELSE Floor(call.lc[3])>>
        low == node(0)
        high == node(1)
    IN  (\A a \in (1..3) \ {c} : call.lc[a][2] = 1) =>
            call.result = RAdd(RMul(RSub(ROne, d), field.data[low]),
                               RMul(d, field.data[high]))

UpdatedVelocity(p, c) ==
    LET before == call.before.particles[p]
        electric_field == Gather(mesh.electric_field, LcOf(before))
    IN  RAdd(before.velocity[c],
             RMul(electric_field[c],
                  RMul(mesh.timestep, RDiv(species.charge, species.mass))))

\* the number of reflections advance applied to particle p on axis c is k
ReflectedTimes(p, c, k) ==
    LET after == species.particles[p]
        updated == UpdatedVelocity(p, c)
        position == RAdd(call.before.particles[p].position[c],
                         RMul(updated, mesh.timestep))
    IN  IF k = 0 THEN
            /\ after.velocity[c] = updated
            /\ after.position[c] = position
        ELSE
            /\ after.velocity[c] = RNeg(updated)
            /\ after.position[c] \in
                  { RSub(RMul(R(2), mesh.origin[c]), position),
                    RSub(RMul(R(2), mesh.max_bound[c]), position) }

\* C19: after advance every velocity component is the updated component
\* v + (q/m)*E*dt or its negation, so the speed is that of the updated
\* velocity, and each axis is reflected at most once per step.
C19_ReflectionConservesSpeed ==
    call.op = "advance" =>
        \A p \in 1..Len(species.particles) :
            /\ \A c \in 1..3 : \E k \in {0, 1} : ReflectedTimes(p, c, k)
            /\ SumTo(LAMBDA c : RMul(species.particles[p].velocity[c + 1],
                                     species.particles[p].velocity[c + 1]), 3)
                 = SumTo(LAMBDA c : RMul(UpdatedVelocity(p, c + 1),
                                         UpdatedVelocity(p, c + 1)), 3)

\* an advance that reflected a moving particle on some axis
C19_Witness ==
    /\ call.op = "advance"
    /\ \E p \in 1..Len(species.particles), c \in 1..3 :
          /\ UpdatedVelocity(p, c) # RZero
          /\ species.particles[p].velocity[c] = RNeg(UpdatedVelocity(p, c))
          /\ ReflectedTimes(p, c, 1)

(***************************************************************************)
(* DivSpec: one Field / Field of two fields of any two shapes.             *)
(***************************************************************************)
DivShapes == (1..2) \X (1..2) \X (1..2)

DivInit ==
    /\ \E d \in DivShapes : field \in {FieldNew(d), RampField(d)}
    /\ \E d \in DivShapes :
          call \in {[op |-> "none", other |-> g] : g \in {RampField(d), UniformField(d, R(2))}}
    /\ mesh = NoMesh
    /\ species = NoSpecies
    /\ solver = NoSolver

\* field / call.other returns the new field
DivCall ==
    /\ call.op = "none"
    /\ DivIndexedInBounds(field, call.other)
    /\ call' = [op |-> "div", other |-> call.other, result |-> FieldDiv(field, call.other)]
    /\ UNCHANGED <<mesh, species, field, solver>>

\* an index of other is out of bounds: the division panics
DivPanic ==
    /\ call.op = "none"
    /\ ~DivIndexedInBounds(field, call.other)
    /\ call' = [op |-> "panic", other |-> call.other]
    /\ UNCHANGED <<mesh, species, field, solver>>

DivNext == DivCall \/ DivPanic

DivSpec == DivInit /\ [][DivNext]_vars

\* C21 as stated: a division of two fields whose shapes differ never
\* returns a result field.
C21_DifferentShapesFatal ==
    (call.op \in {"div", "panic"} /\ field.shape # call.other.shape) => call.op = "panic"

\* C21 amended: a division by a field that is shorter than the left operand
\* on some axis never returns; a division by a field at least as long on
\* every axis returns the quotients over the nodes of the left operand.
C21_ShorterDivisorFatal ==
    /\ (call.op \in {"div", "panic"} /\ \E c \in 1..3 : call.other.shape[c] < field.shape[c])
          => call.op = "panic"
    /\ (call.op \in {"div", "panic"} /\ \A c \in 1..3 : call.other.shape[c] >= field.shape[c])
          => /\ call.op = "div"
             /\ call.result.shape = field.shape
             /\ \A n \in Nodes(field.shape) :
                    RMul(call.result.data[n], call.other.data[n]) = field.data[n]

\* a division by a longer field that returned a result
C21_Witness ==
    /\ call.op = "div"
    /\ field.shape = <<1, 2, 1>>
    /\ call.other.shape = <<2, 2, 1>>
    /\ call.result.data[<<0, 1, 0>>] = RDiv(field.data[<<0, 1, 0>>], call.other.data[<<0, 1, 0>>])
    /\ field.data[<<0, 1, 0>>] # RZero

(***************************************************************************)
(* SweepSpec: the sweep of one iteration of solve_potential at a time, on  *)
(* meshes with several interior nodes on an axis.                          *)
(***************************************************************************)
SweepBoxes ==
    { <<Vec3(R(0), R(0), R(0)), Vec3(R(2), R(4), R(8)), Dimensions(4, 4, 4)>>,
      <<Vec3(R(0), R(0), R(0)), Vec3(R(3), R(4), R(5)), Dimensions(3, 4, 5)>>,
      <<Vec3(R(0), R(0), R(0)), Vec3(R(2), R(3), R(3)), Dimensions(4, 3, 3)>> }

SweepInit ==
    /\ \E box \in SweepBoxes, a \in {R(0), R(1), R(-2)} :
       \E density \in {FieldNew(box[3]), UniformField(box[3], Rat(3, 10)), RampField(box[3])} :
          mesh = [BoxMeshNew(box[1], box[2], box[3], ROne)
                     EXCEPT !.potential = InteriorPotential(box[3], a),
                            !.charge_density = density]
    /\ species = NoSpecies
    /\ field = NoField
    /\ solver = NoSolver
    /\ call = [op |-> "new", sweeps |-> 0]

\* the nested i, j, k loops of one iteration
SweepCall ==
    /\ call.sweeps < MaxOrderedSweeps
    /\ mesh' = Sweep(mesh)
    /\ call' = [op |-> "sweep", sweeps |-> call.sweeps + 1, before |-> mesh]
    /\ UNCHANGED <<species, field, solver>>

SweepNext == SweepCall

SweepSpec == SweepInit /\ [][SweepNext]_vars

\* node n moved by o along axis c
Neighbour(n, c, o) ==
    << IF c = 1 THEN n[1] + o ELSE n[1],
       IF c = 2 THEN n[2] + o ELSE n[2],
       IF c = 3 THEN n[3] + o ELSE n[3] >>

\* the value a Gauss-Seidel update in ascending order stores at interior
\* node n: lower neighbours from this sweep, upper ones from the previous
GaussSeidelInOrder(n) ==
    LET old == call.before.potential.data
        new == mesh.potential.data
        d2(c) == RDiv(ROne, RMul(mesh.cell_spacings[c], mesh.cell_spacings[c]))
        pair(c) == RMul(d2(c), RAdd(new[Neighbour(n, c, -1)], old[Neighbour(n, c, 1)]))
        gauss_seidel_value ==
            RDiv(RAdd(RAdd(RAdd(RDiv(mesh.charge_density.data[n], R(PERMITTIVITY)), pair(1)),
                           pair(2)), pair(3)),
                 RMul(R(2), RAdd(RAdd(d2(1), d2(2)), d2(3))))
    IN  Store(RAdd(old[n], RMul(Rat(14, 10), RSub(gauss_seidel_value, old[n]))))

\* C22: a sweep writes the interior nodes only, and the value of interior
\* node (i,j,k) after the sweep is old + 1.4 * (gauss_seidel_value - old),
\* computed from the values of this sweep at (i-1,j,k), (i,j-1,k), (i,j,k-1)
\* and the values of the previous sweep at (i+1,j,k), (i,j+1,k), (i,j,k+1).
C22_SweepOrder ==
    call.op = "sweep" =>
        \A n \in Nodes(mesh.dimensions) :
            IF n \in Boundary(mesh.dimensions)
            THEN mesh.potential.data[n] = call.before.potential.data[n]
            ELSE mesh.potential.data[n] = GaussSeidelInOrder(n)

\* a sweep in which an interior node read a lower neighbour on every axis
\* that the same sweep had changed
C22_Witness ==
    /\ call.op = "sweep"
    /\ mesh.dimensions = <<4, 4, 4>>
    /\ \A c \in 1..3 :
          mesh.potential.data[Neighbour(<<2, 2, 2>>, c, -1)]
             # call.before.potential.data[Neighbour(<<2, 2, 2>>, c, -1)]
    /\ mesh.potential.data[<<2, 2, 2>>] # call.before.potential.data[<<2, 2, 2>>]

\* after advance particle p has, on axis c, the updated velocity component
\* and the position moved by it, both mirrored when the coordinate before
\* the move was outside [0, dim-1)
MovedInOrder(p, c) ==
    LET before == call.before.particles[p]
        after == species.particles[p]
        lc == LcOf(before)[c]
        updated == UpdatedVelocity(p, c)
        position == RAdd(before.position[c], RMul(updated, mesh.timestep))
    IN  IF RLt(lc, RZero) THEN
            /\ after.velocity[c] = RNeg(updated)
            /\ after.position[c] = RSub(RMul(R(2), mesh.origin[c]), position)
        ELSE IF RGe(lc, R(mesh.dimensions[c] - 1)) THEN
            /\ after.velocity[c] = RNeg(updated)
            /\ after.position[c] = RSub(RMul(R(2), mesh.max_bound[c]), position)
        ELSE
            /\ after.velocity[c] = updated
            /\ after.position[c] = position

\* what advance leaves alone in the species
AdvanceFrame ==
    /\ Len(species.particles) = Len(call.before.particles)
    /\ \A p \in 1..Len(species.particles) :
          species.particles[p].macroparticle_weight
             = call.before.particles[p].macroparticle_weight
    /\ species.number_density = call.before.number_density
    /\ species.charge = call.before.charge
    /\ species.mass = call.before.mass

\* C23: advance gathers the field at the coordinate before the move, adds
\* (charge/mass)*E*dt to the velocity and then moves the position by the
\* updated velocity times dt; it keeps the number, order and weights of the
\* particles and the number density, and a step of advance keeps the mesh.
C23_AdvanceOrderAndFrame ==
    /\ [](call.op = "advance" =>
            /\ AdvanceFrame
            /\ \A p \in 1..Len(species.particles), c \in 1..3 : MovedInOrder(p, c))
    /\ [][call'.op = "advance" => mesh' = mesh]_vars

\* an advance, after a deposit, of a particle whose velocity the field changed
C23_Witness ==
    /\ call.op = "advance"
    /\ species.number_density # FieldNew(mesh.dimensions)
    /\ \E p \in 1..Len(species.particles), c \in 1..3 :
          /\ UpdatedVelocity(p, c) # call.before.particles[p].velocity[c]
          /\ call.before.particles[p].velocity[c] # RZero
          /\ species.particles[p].velocity[c] = UpdatedVelocity(p, c)
          /\ species.particles[p].position[c] =
                RAdd(call.before.particles[p].position[c],
                     RMul(UpdatedVelocity(p, c), mesh.timestep))

(***************************************************************************)
(* VolumeSpec: one mesh and one species under any sequence of the          *)
(* operations of a simulation step, and a caller that changes the field    *)
(* the node_volumes() accessor returned.  field holds that returned field. *)
(***************************************************************************)
\* solve_potential with at most 25 iterations: no iteration checks the
\* residual, so the call is max_solver_iterations sweeps
SolvePotentialUnchecked(m, max_solver_iterations) ==
    LET swept[k \in 0..max_solver_iterations] ==
            IF k = 0 THEN m ELSE Sweep(swept[k - 1])
    IN  swept[max_solver_iterations]

VolumeInit ==
    /\ \E box \in SpeciesBoxes :
          /\ mesh = BoxMeshNew(box[1], box[2], box[3], box[4])
          /\ \E in \in {<<Vec3(RHalf, R(1), R(1)), Vec3(RHalf, R(0), R(0)), R(2)>>,
                          <<Vec3(R(1), RHalf, R(1)), Vec3(R(0), R(0), R(0)), R(1)>>} :
                species = AddParticle(SpeciesNew("s", box[5], box[6], box[3]), mesh,
                                      PositionAt(mesh, in[1]), VelocityOf(mesh, in[2]), in[3])
          /\ call = [op |-> "new", operations |-> 0, advances |-> 0,
                     volumes |-> mesh.node_volumes]
    /\ field = NoField
    /\ solver = NoSolver

Operated(op) ==
    [call EXCEPT !.op = op, !.operations = @ + 1,
                 !.advances = IF op = "advance" THEN @ + 1 ELSE @]

VolumeChargeDensity ==
    /\ call.operations < MaxOperations
    /\ mesh' = ComputeChargeDensity(mesh, <<species>>)
    /\ call' = Operated("compute_charge_density")
    /\ UNCHANGED <<species, field, solver>>

VolumeSolvePotential(max_solver_iterations) ==
    /\ call.operations < MaxOperations
    /\ mesh' = SolvePotentialUnchecked(mesh, max_solver_iterations)
    /\ call' = Operated("solve_potential")
    /\ UNCHANGED <<species, field, solver>>

VolumeElectricField ==
    /\ call.operations < MaxOperations
    /\ mesh' = ComputeElectricField(mesh)
    /\ call' = Operated("compute_electric_field")
    /\ UNCHANGED <<species, field, solver>>

VolumeAdvance ==
    /\ call.operations < MaxOperations
    /\ call.advances < AdvanceLimit(mesh)
    /\ species' = Advance(species, mesh)
    /\ call' = Operated("advance")
    /\ UNCHANGED <<mesh, field, solver>>

VolumeNumberDensity ==
    /\ call.operations < MaxOperations
    /\ species' = ComputeNumberDensity(species, mesh)
    /\ call' = Operated("compute_number_density")
    /\ UNCHANGED <<mesh, field, solver>>

\* the caller takes the field the accessor returns
NodeVolumesCall ==
    /\ call.operations < MaxOperations
    /\ field' = NodeVolumes(mesh)
    /\ call' = Operated("node_volumes")
    /\ UNCHANGED <<mesh, species, solver>>

\* the caller changes the field it was handed
ChangeReturnedField(lc) ==
    /\ call.operations < MaxOperations
    /\ field # NoField
    /\ field' = Scatter(field, lc, R(1))
    /\ call' = Operated("change")
    /\ UNCHANGED <<mesh, species, solver>>

VolumeNext ==
    \/ VolumeChargeDensity
    \/ \E max_solver_iterations \in {1, 2} : VolumeSolvePotential(max_solver_iterations)
    \/ VolumeElectricField
    \/ VolumeAdvance
    \/ VolumeNumberDensity
    \/ NodeVolumesCall
    \/ \E lc \in {Vec3(R(0), R(0), R(0)), Vec3(R(1), RHalf, R(1))} : ChangeReturnedField(lc)

VolumeSpec == VolumeInit /\ [][VolumeNext]_vars

\* C24: after any sequence of compute_charge_density, solve_potential,
\* compute_electric_field, advance and compute_number_density, and of
\* changes a caller makes to a field node_volumes() returned, the node
\* volumes of the mesh are those BoxMesh::new computed.
C24_NodeVolumesUnchanged ==
    /\ mesh.node_volumes = call.volumes
    /\ mesh.node_volumes = ComputeNodeVolumes(mesh.cell_spacings, mesh.dimensions)

\* the charge density, potential and electric field are no longer zero and
\* a returned field was changed
C24_Witness ==
    /\ mesh.charge_density # FieldNew(mesh.dimensions)
    /\ mesh.potential # FieldNew(mesh.dimensions)
    /\ field # NoField
    /\ field # mesh.node_volumes
    /\ call.op = "change"

\* C25: position_to_logical_coordinate maps the origin of the mesh to 0 and
\* max_bound to dim-1 on every axis, and every particle that
\* load_particles_box_qs loaded over the box of the mesh has a logical
\* coordinate within [0, dim-1] on every axis.
C25_BoxMapsIntoRange ==
    /\ PositionToLogicalCoordinate(mesh, mesh.origin) = Vec3(RZero, RZero, RZero)
    /\ \A c \in 1..3 :
          PositionToLogicalCoordinate(mesh, mesh.max_bound)[c] = R(mesh.dimensions[c] - 1)
    /\ ( /\ call.op = "load_particles_box_qs"
         /\ call.origin = mesh.origin
         /\ call.opposite = mesh.max_bound )
          => \A p \in 1..Len(species.particles) :
                GatherDefined(mesh.dimensions, LcOf(species.particles[p]))

\* C26: at every solve_potential call of the loop of the driver the charge
\* density is the one computed in that iteration, from number densities
\* that are the deposits of the positions the species have at the call.
C26_ChargeDensityOfCurrentPositions ==
    (call.pc = "solve_potential" /\ call.iteration >= 0) =>
        /\ mesh.charge_density = call.iteration
        /\ \A s \in 1..NumSpecies :
              /\ species[s].particles = -1
              /\ mesh.charge_source[s] = PositionVersion(species[s])

(***************************************************************************)
(* IndexSpec: the node indices the loops of the mesh and scatter index     *)
(* their fields with.  call.accessed is the set of indices of the last     *)
(* operation; an index outside the nodes of the mesh is a panic in the     *)
(* program.  The indices of an operation depend on the shape only, so one  *)
(* operation is followed per behaviour.                                    *)
(***************************************************************************)
\* the nodes the loops `for i in 1..dimensions.x - 1` (j, k alike) visit
InteriorNodes(d) ==
    {n \in Nodes(d) : \A c \in 1..3 : n[c] >= 1 /\ n[c] <= d[c] - 2}

\* phi[[i, j, k]], rho[[i, j, k]] and the six neighbours of the sweep and
\* of the residual
StencilIndices(n) ==
    {n} \cup {Neighbour(n, c, o) : c \in 1..3, o \in {-1, 1}}

SweepIndices(d) == UNION {StencilIndices(n) : n \in InteriorNodes(d)}

\* the indices of a component of the field that is centred at every node
\* but those of the plane 0, where it is one-sided
ElectricFieldComponentIndicesCentredAtEnd(d, n, c) ==
    IF n[c] = 0 THEN {Neighbour(n, c, o) : o \in {0, 1, 2}}
    ELSE {Neighbour(n, c, o) : o \in {-1, 1}}

\* the indices component c of the electric field at node n reads
ElectricFieldComponentIndices(d, n, c) ==
    IF n[c] = 0 THEN {Neighbour(n, c, o) : o \in {0, 1, 2}}
    ELSE IF n[c] = d[c] - 1 THEN {Neighbour(n, c, o) : o \in {-2, -1, 0}}
    ELSE {Neighbour(n, c, o) : o \in {-1, 1}}

ElectricFieldIndices(d) ==
    UNION {{n} \cup UNION {ElectricFieldComponentIndices(d, n, c) : c \in 1..3} :
              n \in Nodes(d)}

\* the indices scatter writes: none on the early return
ScatterIndices(shape, lc) ==
    IF OutOfRange(shape, lc) THEN {}
    ELSE {ScatterWeights(lc)[s][1] : s \in 1..8}

IndexShapes == {d \in (2..MaxDim) \X (2..MaxDim) \X (2..MaxDim) : d[1] + d[2] + d[3] <= 10}

IndexInit ==
    /\ \E d \in IndexShapes :
          mesh = BoxMeshNew(Vec3(R(0), R(0), R(0)), Vec3(R(d[1]), R(d[2]), R(d[3])), d, ROne)
    /\ species = NoSpecies
    /\ field = NoField
    /\ solver = NoSolver
    /\ call = [op |-> "new", accessed |-> {}]

SweepIndexed ==
    /\ call.op = "new"
    /\ call' = [op |-> "sweep", accessed |-> SweepIndices(mesh.dimensions)]
    /\ UNCHANGED <<mesh, species, field, solver>>

ResidualIndexed ==
    /\ call.op = "new"
    /\ call' = [op |-> "residual", accessed |-> SweepIndices(mesh.dimensions)]
    /\ UNCHANGED <<mesh, species, field, solver>>

ElectricFieldIndexed ==
    /\ call.op = "new"
    /\ call' = [op |-> "compute_electric_field",
                accessed |-> ElectricFieldIndices(mesh.dimensions)]
    /\ UNCHANGED <<mesh, species, field, solver>>

ScatterIndexed(lc) ==
    /\ call.op = "new"
    /\ call' = [op |-> "scatter", lc |-> lc,
                accessed |-> ScatterIndices(mesh.dimensions, lc)]
    /\ UNCHANGED <<mesh, species, field, solver>>

IndexNext ==
    \/ SweepIndexed
    \/ ResidualIndexed
    \/ ElectricFieldIndexed
    \/ \E x \in LcAxis(mesh.dimensions[1]), y \in LcAxis(mesh.dimensions[2]),
          z \in LcAxis(mesh.dimensions[3]) : ScatterIndexed(Vec3(x, y, z))

IndexSpec == IndexInit /\ [][IndexNext]_vars

\* C27: on a mesh with at least 3 nodes on every axis each operation
\* indexes nodes of the mesh only: the sweep and the residual within one
\* node of an interior node, the electric field within the three nodes at
\* either end of an axis, scatter within the cell of its coordinate.
C27_IndicesInRange ==
    (\A c \in 1..3 : mesh.dimensions[c] >= 3) =>
        /\ call.accessed \subseteq Nodes(mesh.dimensions)
        /\ call.op = "scatter" /\ call.accessed # {} =>
              \A n \in call.accessed, c \in 1..3 :
                  n[c] \in {AsUsize(call.lc[c]), AsUsize(call.lc[c]) + 1}

\* the electric field of a 3x3x4 mesh was computed, reading every node,
\* by one-sided stencils at both ends of the shortest axes
C27_Witness ==
    /\ call.op = "compute_electric_field"
    /\ mesh.dimensions = <<3, 3, 4>>
    /\ call.accessed = Nodes(mesh.dimensions)
    /\ ElectricFieldComponentIndices(mesh.dimensions, <<2, 0, 3>>, 1)
          = {<<0, 0, 3>>, <<1, 0, 3>>, <<2, 0, 3>>}
====
